---- MODULE Spec2Model ----
(***************************************************************************)
(* Model of the Generative Stochastic Network computation engine of        *)
(* opendeep/models/gsn.py: the single-layer update rule, the odd/even      *)
(* sweeps, the chain builders and the cost accumulation.                   *)
(*                                                                         *)
(* Tensors are integer vectors of Width units (one example per batch).     *)
(* Visible values are expressed in units of 1/ONE, so ONE stands for the   *)
(* probability 1.0 and ONE \div 2 for sigmoid(0).  Python lists keep their *)
(* 0-based indices: hiddens, weights_list and bias_list are functions over *)
(* 0..n; p_X_chain is a sequence whose last element is p_X_chain[-1].      *)
(***************************************************************************)
EXTENDS Integers, Sequences, FiniteSets, TLC

\* ------------------------------------------------------------------ bounds
MaxLayers == 3
MaxWalkbacks == 2
Width == 2
NumSeeds == 2
NumPresets == 2
MaxCalls == 2
MaxSamples == 3
MaxModels == 2
MaxParams == 2
MantissaBits == 5

Units == 1..Width
ONE == 2

\* ---------------------------------------------------------------- vectors
\* a vector, held as a tuple of its Width entries
Vec(f) == SubSeq(f, 1, Width)

RECURSIVE SumTo(_, _)
SumTo(f, n) == IF n = 0 THEN 0 ELSE f[n] + SumTo(f, n - 1)

\* T.dot(h, W) for a row vector h and W of shape layer_sizes[i] x layer_sizes[i+1]
Dot(h, W) == Vec([c \in Units |-> SumTo([r \in Units |-> h[r] * W[r][c]], Width)])

\* W.T
Transpose(W) == Vec([r \in Units |-> Vec([c \in Units |-> W[c][r]])])

VecAdd(u, v) == Vec([k \in Units |-> u[k] + v[k]])
VecMul(u, v) == Vec([k \in Units |-> u[k] * v[k]])
Zeros == Vec([k \in Units |-> 0])

\* ------------------------------------------------------------ activations
\* 'sigmoid' quantised to {0, 1/2, 1}
visible_activation(v) ==
    Vec([k \in Units |-> IF v[k] < 0 THEN 0 ELSE IF v[k] = 0 THEN ONE \div 2 ELSE ONE])

\* 'tanh' quantised to {-1, 0, 1}
hidden_activation(v) ==
    Vec([k \in Units |-> IF v[k] < 0 THEN -1 ELSE IF v[k] = 0 THEN 0 ELSE 1])

\* ---------------------------------------------------------- random stream
\* MRG_RandomStreams(1) is a seeded stream: the n-th draw is a function of the
\* seed and of the number of draws made before it.
Seeds == 1..NumSeeds
MrgPos(mrg) == mrg.normal + mrg.binomial + mrg.mask

NormalDraw(mrg) == Vec([k \in Units |-> ((mrg.seed + MrgPos(mrg) + k) % 3) - 1])
UniformDraw(mrg) == Vec([k \in Units |-> (mrg.seed + MrgPos(mrg) + k) % ONE])
MaskDraw(mrg) ==
    Vec([k \in Units |-> IF (mrg.seed + MrgPos(mrg) + 2 * k) % 3 = 0 THEN 0 ELSE 1])

\* x + N(0, sigma)
add_gaussian_noise(x, mrg) ==
    [val |-> VecAdd(x, NormalDraw(mrg)),
     mrg |-> [mrg EXCEPT !.normal = @ + 1]]

\* MRG.binomial(p = x): a unit is ONE when the uniform draw falls below p
binomial(p, mrg) ==
    [val |-> Vec([k \in Units |-> IF UniformDraw(mrg)[k] < p[k] THEN ONE ELSE 0]),
     mrg |-> [mrg EXCEPT !.binomial = @ + 1]]

\* masking noise: each unit is zeroed independently
salt_and_pepper(x, mrg) ==
    [val |-> VecMul(x, MaskDraw(mrg)),
     mrg |-> [mrg EXCEPT !.mask = @ + 1]]

\* ------------------------------------------------------- the layer update
\* len(hiddens) - 1: the index of the top layer
Top(hiddens) == Cardinality(DOMAIN hiddens) - 1

\* the visible layer read through W_0 instead of its transpose
PreActivationNoTranspose(hiddens, weights_list, bias_list, i) ==
    IF i = 0
    THEN VecAdd(Dot(hiddens[i + 1], weights_list[i]), bias_list[i])
    ELSE IF i = Top(hiddens)
    THEN VecAdd(Dot(hiddens[i - 1], weights_list[i - 1]), bias_list[i])
    ELSE VecAdd(VecAdd(Dot(hiddens[i + 1], Transpose(weights_list[i])),
                       Dot(hiddens[i - 1], weights_list[i - 1])),
                bias_list[i])

\* an interior layer that reads the layer below only
PreActivationBelowOnly(hiddens, weights_list, bias_list, i) ==
    IF i = 0
    THEN VecAdd(Dot(hiddens[i + 1], Transpose(weights_list[i])), bias_list[i])
    ELSE VecAdd(Dot(hiddens[i - 1], weights_list[i - 1]), bias_list[i])

\* a layer that also reads the layer two below it
PreActivationTwoBelow(hiddens, weights_list, bias_list, i) ==
    LET own == IF i = 0
               THEN VecAdd(Dot(hiddens[i + 1], Transpose(weights_list[i])), bias_list[i])
               ELSE IF i = Top(hiddens)
               THEN VecAdd(Dot(hiddens[i - 1], weights_list[i - 1]), bias_list[i])
               ELSE VecAdd(VecAdd(Dot(hiddens[i + 1], Transpose(weights_list[i])),
                                  Dot(hiddens[i - 1], weights_list[i - 1])),
                           bias_list[i])
    IN  IF i >= 2 THEN VecAdd(own, hiddens[i - 2]) ELSE own

\* the dot products of simple_update_layer, whatever layer
PreActivation(hiddens, weights_list, bias_list, i) ==
    IF i = 0
    THEN VecAdd(Dot(hiddens[i + 1], Transpose(weights_list[i])), bias_list[i])
    ELSE IF i = Top(hiddens)
    THEN VecAdd(Dot(hiddens[i - 1], weights_list[i - 1]), bias_list[i])
    ELSE VecAdd(VecAdd(Dot(hiddens[i + 1], Transpose(weights_list[i])),
                       Dot(hiddens[i - 1], weights_list[i - 1])),
                bias_list[i])

\* the gate closing on every hidden layer
NoiseGateAllHidden(i, add_noise, noiseless_h1) ==
    IF i >= 1 /\ noiseless_h1 THEN FALSE ELSE add_noise

\* "if i==1 and noiseless_h1: add_noise = False"
NoiseGate(i, add_noise, noiseless_h1) ==
    IF i = 1 /\ noiseless_h1 THEN FALSE ELSE add_noise

\* a layer without its post activation noise
ActivatePreOnly(pre, i, noisy, mrg) ==
    LET n1 == IF i # 0 /\ noisy
              THEN add_gaussian_noise(pre, mrg)
              ELSE [val |-> pre, mrg |-> mrg]
    IN  [val |-> IF i = 0 THEN visible_activation(n1.val) ELSE hidden_activation(n1.val),
         mrg |-> n1.mrg]

\* pre activation noise, activation, post activation noise of a layer;
\* returns the value and the stream after the draws
Activate(pre, i, noisy, mrg) ==
    LET n1 == IF i # 0 /\ noisy
              THEN add_gaussian_noise(pre, mrg)
              ELSE [val |-> pre, mrg |-> mrg]
        act == IF i = 0 THEN visible_activation(n1.val) ELSE hidden_activation(n1.val)
    IN  IF i # 0 /\ noisy
        THEN add_gaussian_noise(act, n1.mrg)
        ELSE [val |-> act, mrg |-> n1.mrg]

\* the clean prediction stored back
CorruptNothing(pX, input_sampling, mrg) == [val |-> pX, mrg |-> mrg]

\* the value stored back as hiddens[0]: sample from p(X|H...) and add noise
Corrupt(pX, input_sampling, mrg) ==
    LET sampled == IF input_sampling
                   THEN binomial(pX, mrg)
                   ELSE [val |-> pX, mrg |-> mrg]
    IN  salt_and_pepper(sampled.val, sampled.mrg)

\* a prediction appended by every even layer of the sweep
AppendToChainEveryEven(p_X_chain, i, pX) ==
    IF i % 2 = 0 THEN Append(p_X_chain, pX) ELSE p_X_chain

\* "if i == 0: p_X_chain.append(hiddens[i])"
AppendToChain(p_X_chain, i, pX) ==
    IF i = 0 THEN Append(p_X_chain, pX) ELSE p_X_chain

\* an update that writes the new value to the layer above as well
simple_update_layer_and_above(hiddens, weights_list, bias_list, p_X_chain, i, add_noise, noiseless_h1, input_sampling, mrg) ==
    LET a == Activate(PreActivation(hiddens, weights_list, bias_list, i), i,
                      NoiseGate(i, add_noise, noiseless_h1), mrg)
        c == IF i = 0 THEN Corrupt(a.val, input_sampling, a.mrg) ELSE a
    IN  [hiddens |-> [l \in DOMAIN hiddens |->
                         IF l = i \/ l = i + 1 THEN c.val ELSE hiddens[l]],
         p_X_chain |-> AppendToChain(p_X_chain, i, a.val),
         mrg |-> c.mrg]

\* simple_update_layer: the new hiddens, p_X_chain and random stream
simple_update_layer(hiddens, weights_list, bias_list, p_X_chain, i, add_noise, noiseless_h1, input_sampling, mrg) ==
    LET pre == PreActivation(hiddens, weights_list, bias_list, i)
        noisy == NoiseGate(i, add_noise, noiseless_h1)
        a == Activate(pre, i, noisy, mrg)
    IN  IF i = 0
        THEN LET c == Corrupt(a.val, input_sampling, a.mrg)
             IN  [hiddens |-> [hiddens EXCEPT ![i] = c.val],
                  p_X_chain |-> AppendToChain(p_X_chain, i, a.val),
                  mrg |-> c.mrg]
        ELSE [hiddens |-> [hiddens EXCEPT ![i] = a.val],
              p_X_chain |-> AppendToChain(p_X_chain, i, a.val),
              mrg |-> a.mrg]

\* ------------------------------------------------------------------ costs
\* elementwise cost of one reconstruction against the true input (squared error)
cost_function(rX, X) == SumTo([k \in Units |-> (rX[k] - X[k]) * (rX[k] - X[k])], Width)

\* the last cost in place of the sum
numpy_sum_last(costs) == IF costs = <<>> THEN 0 ELSE costs[Len(costs)]

\* numpy.sum(costs)
RECURSIVE numpy_sum(_)
numpy_sum(costs) == IF costs = <<>> THEN 0 ELSE Head(costs) + numpy_sum(Tail(costs))

\* [cost_function(rX, X) for rX in p_X_chain]
Costs(p_X_chain, X) == [n \in 1..Len(p_X_chain) |-> cost_function(p_X_chain[n], X)]

\* ------------------------------------------------------------ model inputs
Presets == 0..(NumPresets - 1)

\* weights_list given in the config: `layers` matrices
WeightsPreset(p, layers) ==
    [l \in 0..(layers - 1) |->
        [r \in Units |-> [c \in Units |->
            IF p = 0 THEN 0 ELSE ((p * (l + r + 2 * c)) % 3) - 1]]]

\* bias_list given in the config: `layers + 1` vectors
BiasPreset(p, layers) ==
    [l \in 0..layers |-> [k \in Units |-> IF p = 0 THEN 0 ELSE ((p * (l + k)) % 3) - 1]]

\* a binary input example
InputPreset(p) == [k \in Units |-> IF (p + k) % 3 = 0 THEN 0 ELSE ONE]

\* an externally supplied, already populated layer stack
StatePreset(p, x, layers) ==
    [l \in 0..layers |-> IF l = 0 THEN x ELSE [k \in Units |-> ((p + l + k) % 3) - 1]]

VARIABLES
    args,           \* self.args: layers, walkbacks, noiseless_h1, input_sampling
    X,              \* the input example
    weights_list,   \* W_0 .. W_{layers-1}
    bias_list,      \* b_0 .. b_layers
    builder,        \* the graph builder that is running
    add_noise,      \* its add_noise argument
    hiddens,        \* the layer stack
    p_X_chain,      \* the chain of visible predictions
    mrg,            \* the random stream: seed and number of draws of each kind
    pc,             \* "idle", "odd", "even", "return", "done", "IndexError"
    i,              \* the layer the running pass updates next
    walkback,       \* completed sweeps of the running builder
    updated,        \* layers logged as 'updating layer' in the current sweep
    x_sample,       \* returned sample
    gsn_costs,      \* per-step costs
    show_cost,      \* cost of the last chain entry
    cost,           \* summed cost
    gradient_buffer,\* the momentum buffer of every parameter
    returned,       \* the value the last compiled function returned
    calls,          \* calls of compiled functions and of sample made so far
    n_samples,      \* sample: the requested number of samples
    samples,        \* sample: `samples` (one layer) or `visible_chain`
    x_noisy,        \* sample: the noisy input `x` of the next step (one layer)
    network_state,  \* sample: the list of network states (several layers)
    sampled_h,      \* sample: the hidden states collected
    t,              \* sample: iterations of the loop made so far
    checkpoint,     \* the parameter file: whether it exists, and the pickled list
    construction,   \* GSN(...): its arguments and what the call has done so far
    module_defaults,\* the dictionary the module binds to the name `defaults`
    base_model,     \* a model that relies on the methods of the class Model
    factors         \* closest_to_square_factors(n): n, `test` and the pair returned

vars == <<args, X, weights_list, bias_list, builder, add_noise, hiddens, p_X_chain,
          mrg, pc, i, walkback, updated, x_sample, gsn_costs, show_cost, cost,
          gradient_buffer, returned, calls,
          n_samples, samples, x_noisy, network_state, sampled_h, t, checkpoint,
          construction, module_defaults, base_model, factors>>

model == <<args, X, weights_list, bias_list, gradient_buffer, returned, calls>>
outputs == <<x_sample, gsn_costs, show_cost, cost>>
sampler == <<n_samples, samples, x_noisy, network_state, sampled_h, t>>
process == <<module_defaults, base_model, factors>>

\* the state after the construction of a model with the given options and
\* parameter lists
Constructed(layers, walkbacks, noiseless_h1, input_sampling, momentum, pw, pb) ==
    /\ args = [layers |-> layers, walkbacks |-> walkbacks,
               noiseless_h1 |-> noiseless_h1, input_sampling |-> input_sampling,
               learning_rate |-> 1, momentum |-> momentum]
    /\ weights_list = WeightsPreset(pw, layers)
    /\ bias_list = BiasPreset(pb, layers)
    /\ gradient_buffer = [W |-> WeightsPreset(0, layers), b |-> BiasPreset(0, layers)]
    /\ hiddens = [l \in 0..layers |-> Zeros]
    /\ returned = 0
    /\ calls = 0
    /\ builder = "none"

\* no builder has run and no function has been called
Idle ==
    /\ add_noise = FALSE
    /\ p_X_chain = <<>>
    /\ pc = "idle"
    /\ i = 0
    /\ walkback = 0
    /\ updated = <<>>
    /\ x_sample = Zeros
    /\ gsn_costs = <<>>
    /\ show_cost = 0
    /\ n_samples = 0
    /\ samples = <<>>
    /\ x_noisy = Zeros
    /\ network_state = <<>>
    /\ sampled_h = <<>>
    /\ t = 0
    /\ cost = 0

\* GSN(...) has returned: the example dataset gave the input size, the output
\* directory and the config file are written, every graph is compiled
Finished(a) ==
    [train_X |-> <<Width>>, config |-> a, outdir |-> TRUE, config_file |-> TRUE,
     N_input |-> <<Width>>, graphs |-> "compiled", made |-> 1]

\* no model other than the GSN exists
NoBaseModel == [method |-> "none"]

\* closest_to_square_factors has not been called
NoFactors == [at |-> "none"]

\* no parameter file has been written
NoCheckpoint == [exists |-> FALSE, params |-> <<>>]

Init ==
    /\ \E layers \in 1..MaxLayers, walkbacks \in 0..MaxWalkbacks,
          noiseless_h1 \in BOOLEAN, input_sampling \in BOOLEAN,
          pw \in Presets, pb \in Presets :
          Constructed(layers, walkbacks, noiseless_h1, input_sampling, 0, pw, pb)
    /\ X \in {InputPreset(p) : p \in Presets}
    /\ \E seed \in Seeds : mrg = [seed |-> seed, normal |-> 0, binomial |-> 0, mask |-> 0]
    /\ Idle
    /\ checkpoint = NoCheckpoint
    /\ construction = Finished(args)
    /\ module_defaults = args
    /\ base_model = NoBaseModel
    /\ factors = NoFactors

\* ------------------------------------------------------------- the sweeps
\* update_layers_reverse runs the even pass first; update_layers the odd pass
\* every builder sweeping in the reversed order
PassOrderReversed(b) == <<"even", "odd">>

\* every builder sweeping in the forward order
PassOrderForward(b) == <<"odd", "even">>

PassOrder(b) ==
    IF b = "build_gsn_given_hiddens" THEN <<"even", "odd">> ELSE <<"odd", "even">>
FirstPass(b) == PassOrder(b)[1]
SecondPass(b) == PassOrder(b)[2]
FirstIndex(pass) == IF pass = "odd" THEN 1 ELSE 0

\* the scan step and the sampling graph making two updates
SweepsTwice(b) == IF b \in {"update_layers_scan_step", "f_sample"} THEN 2 ELSE args.walkbacks

\* range(walkbacks) of the builders; the scan step and the sampling graph are
\* ONE update
Sweeps(b) == IF b \in {"update_layers_scan_step", "f_sample"} THEN 1 ELSE args.walkbacks

\* a loop whose body runs once before range(walkbacks) is looked at
EnterAtLeastOnce(b) ==
    /\ builder' = b
    /\ walkback' = 0
    /\ updated' = <<>>
    /\ p_X_chain' = <<>>
    /\ pc' = FirstPass(b) /\ i' = FirstIndex(FirstPass(b))

\* the builder's loop is entered only when range(walkbacks) is not empty
Enter(b) ==
    /\ builder' = b
    /\ walkback' = 0
    /\ updated' = <<>>
    /\ p_X_chain' = <<>>
    /\ IF Sweeps(b) > 0
       THEN pc' = FirstPass(b) /\ i' = FirstIndex(FirstPass(b))
       ELSE pc' = "return" /\ i' = 0

\* build_gsn, and build_gsn_scan alike, up to the first update_layers call
build_gsn_start ==
    /\ pc = "idle"
    /\ \E an \in BOOLEAN :
          /\ add_noise' = an
          /\ LET X_init == IF an THEN salt_and_pepper(X, mrg) ELSE [val |-> X, mrg |-> mrg]
             IN  /\ hiddens' = [l \in 0..args.layers |-> IF l = 0 THEN X_init.val ELSE Zeros]
                 /\ mrg' = X_init.mrg
    /\ \E b \in {"build_gsn", "build_gsn_scan"} : Enter(b)
    /\ UNCHANGED <<model, sampler, checkpoint, construction, process, outputs>>

\* build_gsn_given_hiddens, called with a populated stack
build_gsn_given_hiddens_start ==
    /\ pc = "idle"
    /\ \E an \in BOOLEAN, p \in Presets :
          /\ add_noise' = an
          /\ hiddens' = StatePreset(p, X, args.layers)
    /\ Enter("build_gsn_given_hiddens")
    /\ UNCHANGED <<model, sampler, checkpoint, construction, process, mrg, outputs>>

\* build_gsn_pxh, called with a populated stack
build_gsn_pxh_start ==
    /\ pc = "idle"
    /\ \E an \in BOOLEAN, p \in Presets :
          /\ add_noise' = an
          /\ hiddens' = StatePreset(p, X, args.layers)
    /\ Enter("build_gsn_pxh")
    /\ UNCHANGED <<model, sampler, checkpoint, construction, process, mrg, outputs>>

\* update_layers_scan_step, called with the state of the previous step
update_layers_scan_step_start ==
    /\ pc = "idle"
    /\ \E an \in BOOLEAN, p \in Presets :
          /\ add_noise' = an
          /\ hiddens' = StatePreset(p, X, args.layers)
    /\ Enter("update_layers_scan_step")
    /\ UNCHANGED <<model, sampler, checkpoint, construction, process, mrg, outputs>>

\* the graph of f_sample: update_layers on network_state_output, which starts
\* as the inputs X_sample, H_sampling_1 .. H_sampling_layers, with add_noise True
f_sample_graph_start ==
    /\ pc = "idle"
    /\ add_noise' = TRUE
    /\ \E p \in Presets : hiddens' = StatePreset(p, X, args.layers)
    /\ Enter("f_sample")
    /\ UNCHANGED <<model, sampler, checkpoint, construction, process, mrg, outputs>>

\* where the loops stand after the update of layer i in a pass
Advance(pass) ==
    IF i + 2 <= Top(hiddens)
    THEN /\ pc' = pass /\ i' = i + 2 /\ walkback' = walkback
    ELSE IF pass = FirstPass(builder)
    THEN /\ pc' = SecondPass(builder) /\ i' = FirstIndex(SecondPass(builder))
         /\ walkback' = walkback
    ELSE /\ walkback' = walkback + 1
         /\ IF walkback + 1 < Sweeps(builder)
            THEN pc' = FirstPass(builder) /\ i' = FirstIndex(FirstPass(builder))
            ELSE pc' = "return" /\ i' = 0

\* the log of the sweep: it restarts with the first update of a sweep
Logged(pass) ==
    IF pass = FirstPass(builder) /\ i = FirstIndex(pass) THEN <<i>> ELSE Append(updated, i)

\* one iteration of a pass: simple_update_layer on layer i
UpdateLayer(pass) ==
    /\ pc = pass
    /\ LET u == simple_update_layer(hiddens, weights_list, bias_list, p_X_chain, i,
                                    add_noise, args.noiseless_h1, args.input_sampling, mrg)
       IN  /\ hiddens' = u.hiddens
           /\ p_X_chain' = u.p_X_chain
           /\ mrg' = u.mrg
    /\ updated' = Logged(pass)
    /\ Advance(pass)
    /\ UNCHANGED <<model, sampler, checkpoint, construction, process, builder, add_noise, outputs>>

update_odd_layers == UpdateLayer("odd")
update_even_layers == UpdateLayer("even")

\* ------------------------------------------------------------ the returns
\* p_X_chain[-1] raises IndexError on an empty list
\* the first element, chain[0]
First(chain) == chain[1]

\* chain[-1]
Last(chain) == chain[Len(chain)]

\* build_gsn returns (p_X_chain, hiddens); GSN.__init__ then takes the costs of
\* the chain: gsn_costs, show_gsn_cost and gsn_cost for the training graph,
\* gsn_costs_recon and show_gsn_cost_recon for the reconstruction graph
build_gsn_return ==
    /\ pc = "return"
    /\ builder = "build_gsn"
    /\ gsn_costs' = Costs(p_X_chain, X)
    /\ IF p_X_chain = <<>>
       THEN /\ pc' = "IndexError"
            /\ UNCHANGED <<show_cost, cost, x_sample>>
       ELSE /\ pc' = "done"
            /\ show_cost' = Last(Costs(p_X_chain, X))
            /\ cost' = IF add_noise THEN numpy_sum(Costs(p_X_chain, X)) ELSE cost
            /\ x_sample' = Last(p_X_chain)
    /\ UNCHANGED <<model, sampler, checkpoint, construction, process, builder, add_noise, hiddens, p_X_chain, mrg, i, walkback, updated>>

\* the tail of build_gsn_scan and of build_gsn_given_hiddens:
\* x_sample, costs, show_cost, cost
builder_costs_return ==
    /\ pc = "return"
    /\ builder \in {"build_gsn_scan", "build_gsn_given_hiddens"}
    /\ IF p_X_chain = <<>>
       THEN /\ pc' = "IndexError"
            /\ UNCHANGED outputs
       ELSE /\ pc' = "done"
            /\ x_sample' = Last(p_X_chain)
            /\ gsn_costs' = Costs(p_X_chain, X)
            /\ show_cost' = Last(Costs(p_X_chain, X))
            /\ cost' = numpy_sum(Costs(p_X_chain, X))
    /\ UNCHANGED <<model, sampler, checkpoint, construction, process, builder, add_noise, hiddens, p_X_chain, mrg, i, walkback, updated>>

\* the tail of build_gsn_pxh: x_sample = p_X_chain[-1]
build_gsn_pxh_return ==
    /\ pc = "return"
    /\ builder = "build_gsn_pxh"
    /\ IF p_X_chain = <<>>
       THEN /\ pc' = "IndexError"
            /\ UNCHANGED x_sample
       ELSE /\ pc' = "done"
            /\ x_sample' = Last(p_X_chain)
    /\ UNCHANGED <<model, sampler, checkpoint, construction, process, builder, add_noise, hiddens, p_X_chain, mrg,
                   i, walkback, updated, gsn_costs, show_cost, cost>>

\* update_layers_scan_step returns p_X_chain[0], hiddens_t
update_layers_scan_step_return ==
    /\ pc = "return"
    /\ builder = "update_layers_scan_step"
    /\ pc' = "done"
    /\ x_sample' = p_X_chain[1]
    /\ UNCHANGED <<model, sampler, checkpoint, construction, process, builder, add_noise, hiddens, p_X_chain, mrg, i, walkback, updated,
                   gsn_costs, show_cost, cost>>

\* f_sample outputs visible_pX_chain[-1] (one hidden layer) or
\* network_state_output + visible_pX_chain
f_sample_graph_return ==
    /\ pc = "return"
    /\ builder = "f_sample"
    /\ pc' = "done"
    /\ x_sample' = Last(p_X_chain)
    /\ UNCHANGED <<model, sampler, checkpoint, construction, process, builder, add_noise, hiddens, p_X_chain, mrg, i, walkback,
                   updated, gsn_costs, show_cost, cost>>

Next ==
    \/ build_gsn_start
    \/ build_gsn_given_hiddens_start
    \/ update_layers_scan_step_start
    \/ update_odd_layers
    \/ update_even_layers
    \/ build_gsn_return
    \/ builder_costs_return
    \/ update_layers_scan_step_return
    \/ f_sample_graph_start
    \/ f_sample_graph_return
    \/ build_gsn_pxh_start
    \/ build_gsn_pxh_return

Spec == Init /\ [][Next]_vars

\* ------------------------------------------------- the compiled functions
\* One evaluation of a graph: the builders run as functions of the input, the
\* parameters and the random stream.  st is [hiddens, p_X_chain, mrg].

\* the loop of update_odd_layers (from layer 1) or update_even_layers (from 0)
RECURSIVE update_pass(_, _, _, _, _)
update_pass(st, W, b, an, l) ==
    IF l > Top(st.hiddens)
    THEN st
    ELSE update_pass(simple_update_layer(st.hiddens, W, b, st.p_X_chain, l, an,
                                         args.noiseless_h1, args.input_sampling, st.mrg),
                     W, b, an, l + 2)

\* the same loop stopped before layer `stop`
RECURSIVE update_pass_until(_, _, _, _, _, _)
update_pass_until(st, W, b, an, l, stop) ==
    IF l > Top(st.hiddens) \/ l >= stop
    THEN st
    ELSE update_pass_until(simple_update_layer(st.hiddens, W, b, st.p_X_chain, l, an,
                                               args.noiseless_h1, args.input_sampling, st.mrg),
                           W, b, an, l + 2, stop)

\* the layers of the pass from `first` taken from the top one down to layer l,
\* each with the draws it has in the loop of the code on st0
RECURSIVE update_pass_descending(_, _, _, _, _, _, _)
update_pass_descending(st0, st, W, b, an, first, l) ==
    IF l < first
    THEN st
    ELSE LET u == simple_update_layer(st.hiddens, W, b, st.p_X_chain, l, an,
                                      args.noiseless_h1, args.input_sampling,
                                      update_pass_until(st0, W, b, an, first, l).mrg)
         IN  update_pass_descending(st0, [hiddens |-> u.hiddens, p_X_chain |-> u.p_X_chain,
                                          mrg |-> st.mrg],
                                    W, b, an, first, l - 2)

\* one update over the even layers + one update over the odd layers
update_layers_reverse(st, W, b, an) == update_pass(update_pass(st, W, b, an, 0), W, b, an, 1)

\* one update over the odd layers + one update over the even layers
update_layers(st, W, b, an) == update_pass(update_pass(st, W, b, an, 1), W, b, an, 0)

\* "for i in range(walkbacks): update_layers(...)"
RECURSIVE walkback_loop(_, _, _, _, _)
walkback_loop(st, W, b, an, n) ==
    IF n = 0 THEN st ELSE walkback_loop(update_layers(st, W, b, an), W, b, an, n - 1)

\* build_gsn: the chain, the final stack and the stream after the draws
build_gsn(x, W, b, an, m) ==
    LET X_init == IF an THEN salt_and_pepper(x, m) ELSE [val |-> x, mrg |-> m]
    IN  walkback_loop([hiddens |-> (0 :> X_init.val) @@ [l \in DOMAIN b |-> Zeros],
                       p_X_chain |-> <<>>,
                       mrg |-> X_init.mrg],
                      W, b, an, args.walkbacks)

\* gsn_costs, the costs of the chain of the training graph (add_noise = True)
training_costs(x, W, b, m) == Costs(build_gsn(x, W, b, TRUE, m).p_X_chain, x)

\* show_gsn_cost = gsn_costs[-1]
show_gsn_cost(x, W, b, m) == Last(training_costs(x, W, b, m))

\* gsn_cost = numpy.sum(gsn_costs)
gsn_cost(x, W, b, m) == numpy_sum(training_costs(x, W, b, m))

\* the gradient of the cost of the last chain entry alone
gradient_of_show_cost(x, W, b, m) ==
    LET at == CHOOSE v \in {show_gsn_cost(x, W, b, m)} : TRUE
    IN  [W |-> [l \in DOMAIN W |-> [r \in Units |-> [c \in Units |->
                    show_gsn_cost(x, [W EXCEPT ![l][r][c] = @ + 1], b, m) - at]]],
         b |-> [l \in DOMAIN b |-> [k \in Units |->
                    show_gsn_cost(x, W, [b EXCEPT ![l][k] = @ + 1], m) - at]]]

\* gradient = T.grad(gsn_cost, self.params): one entry per parameter entry, the
\* change of gsn_cost when that entry grows by one
gradient(x, W, b, m) ==
    LET at == CHOOSE v \in {gsn_cost(x, W, b, m)} : TRUE
    IN  [W |-> [l \in DOMAIN W |-> [r \in Units |-> [c \in Units |->
                    gsn_cost(x, [W EXCEPT ![l][r][c] = @ + 1], b, m) - at]]],
         b |-> [l \in DOMAIN b |-> [k \in Units |->
                    gsn_cost(x, W, [b EXCEPT ![l][k] = @ + 1], m) - at]]]

\* m_gradient = momentum * gb + (1 - momentum) * g, for each (gb, g) of the zip
m_gradient(gb, g) ==
    [W |-> [l \in DOMAIN gb.W |-> [r \in Units |-> [c \in Units |->
                args.momentum * gb.W[l][r][c] + (1 - args.momentum) * g.W[l][r][c]]]],
     b |-> [l \in DOMAIN gb.b |-> [k \in Units |->
                args.momentum * gb.b[l][k] + (1 - args.momentum) * g.b[l][k]]]]

\* the step taken along the buffer as it was before the call
param_updates_old_buffer(params, mg) ==
    [W |-> [l \in DOMAIN params.W |-> [r \in Units |-> [c \in Units |->
                params.W[l][r][c] - args.learning_rate * gradient_buffer.W[l][r][c]]]],
     b |-> [l \in DOMAIN params.b |-> [k \in Units |->
                params.b[l][k] - args.learning_rate * gradient_buffer.b[l][k]]]]

\* param - learning_rate * mg, for each (param, mg) of the zip
param_updates(params, mg) ==
    [W |-> [l \in DOMAIN params.W |-> [r \in Units |-> [c \in Units |->
                params.W[l][r][c] - args.learning_rate * mg.W[l][r][c]]]],
     b |-> [l \in DOMAIN params.b |-> [k \in Units |->
                params.b[l][k] - args.learning_rate * mg.b[l][k]]]]

\* the minibatch of the n-th call
Batch(n) == InputPreset(n)

\* the values one evaluation of a chain leaves behind
Evaluated(name, x, run) ==
    /\ pc = "idle"
    /\ calls < MaxCalls
    /\ calls' = calls + 1
    /\ builder' = name
    /\ X' = x
    /\ \E st \in {run} :
          /\ hiddens' = st.hiddens
          /\ p_X_chain' = st.p_X_chain
          /\ mrg' = st.mrg
    /\ gsn_costs' = Costs(p_X_chain', x)
    /\ show_cost' = Last(gsn_costs')
    /\ x_sample' = Last(p_X_chain')
    /\ UNCHANGED <<args, pc, i, walkback, updated, sampler, checkpoint, construction, process>>

\* f_learn(X): outputs show_gsn_cost, updates the parameters and the buffers
f_learn ==
    \E x \in {Batch(calls)} :
        /\ Evaluated("f_learn", x, build_gsn(x, weights_list, bias_list, TRUE, mrg))
        /\ add_noise' = TRUE
        /\ returned' = show_gsn_cost(x, weights_list, bias_list, mrg)
        /\ cost' = numpy_sum(gsn_costs')
        /\ gradient_buffer' =
              m_gradient(gradient_buffer, gradient(x, weights_list, bias_list, mrg))
        /\ weights_list' =
              param_updates([W |-> weights_list, b |-> bias_list], gradient_buffer').W
        /\ bias_list' =
              param_updates([W |-> weights_list, b |-> bias_list], gradient_buffer').b

\* f_cost compiled with updates = self.updates, as f_learn is
f_cost_with_updates ==
    \E x \in {Batch(calls)} :
        /\ Evaluated("f_cost", x, build_gsn(x, weights_list, bias_list, TRUE, mrg))
        /\ add_noise' = TRUE
        /\ returned' = show_gsn_cost(x, weights_list, bias_list, mrg)
        /\ cost' = numpy_sum(gsn_costs')
        /\ gradient_buffer' =
              m_gradient(gradient_buffer, gradient(x, weights_list, bias_list, mrg))
        /\ weights_list' =
              param_updates([W |-> weights_list, b |-> bias_list], gradient_buffer').W
        /\ bias_list' =
              param_updates([W |-> weights_list, b |-> bias_list], gradient_buffer').b

\* f_cost(X): outputs show_gsn_cost, updates nothing
f_cost ==
    \E x \in {Batch(calls)} :
        /\ Evaluated("f_cost", x, build_gsn(x, weights_list, bias_list, TRUE, mrg))
        /\ add_noise' = TRUE
        /\ returned' = show_gsn_cost(x, weights_list, bias_list, mrg)
        /\ cost' = numpy_sum(gsn_costs')
        /\ UNCHANGED <<weights_list, bias_list, gradient_buffer>>

\* f_recon(X): outputs [show_gsn_cost_recon, p_X_chain_recon[-1]]
f_recon ==
    \E x \in {Batch(calls)} :
        /\ Evaluated("f_recon", x, build_gsn(x, weights_list, bias_list, FALSE, mrg))
        /\ add_noise' = FALSE
        /\ returned' = show_cost'
        /\ UNCHANGED <<cost, weights_list, bias_list, gradient_buffer>>

\* a constructed model with trained-looking parameters; the construction takes
\* gsn_costs[-1], so walkbacks >= 1
InitTrain ==
    /\ \E layers \in 1..(MaxLayers - 1), walkbacks \in 1..MaxWalkbacks,
          noiseless_h1 \in BOOLEAN, input_sampling \in BOOLEAN,
          momentum \in {0, 1, 2}, p \in Presets \ {0} :
          Constructed(layers, walkbacks, noiseless_h1, input_sampling, momentum, p, p)
    /\ X = Batch(0)
    /\ mrg = [seed |-> 1, normal |-> 0, binomial |-> 0, mask |-> 0]
    /\ Idle
    /\ checkpoint = NoCheckpoint
    /\ construction = Finished(args)
    /\ module_defaults = args
    /\ base_model = NoBaseModel
    /\ factors = NoFactors

NextTrain ==
    \/ f_learn
    \/ f_cost
    \/ f_recon

SpecTrain == InitTrain /\ [][NextTrain]_vars

\* ----------------------------------------------------------------- sampling
\* the sampling graph: ONE update_layers on the network state given as input,
\* with add_noise = True and an empty visible chain
sampling_graph(NSI, m) ==
    update_layers([hiddens |-> NSI, p_X_chain |-> <<>>, mrg |-> m],
                  weights_list, bias_list, TRUE)

\* sampling_wrapper(NSI): the outputs of f_sample split into NSO, the first
\* len(network_state_output) of them, and vis_pX_chain, the rest
sampling_wrapper(NSI, m) ==
    LET out == CHOOSE st \in {sampling_graph(NSI, m)} : TRUE
    IN  [NSO |-> out.hiddens, vis_pX_chain |-> out.p_X_chain, mrg |-> out.mrg]

\* the network state whose visible layer is x and whose hidden layers are zero
ZeroHiddens(x) == (0 :> x) @@ [l \in 0..args.layers |-> Zeros]

\* rng.binomial(n=1, p=x): numpy's global generator, not the seeded stream; an
\* entry strictly between 0 and ONE may come out either way
numpy_binomial(p) ==
    {Vec(v) : v \in {w \in [Units -> {0, ONE}] :
                        \A k \in Units : (p[k] = 0 => w[k] = 0) /\ (p[k] = ONE => w[k] = ONE)}}

\* the inputs of the calls made from outside
SeedRows == {InputPreset(p) : p \in Presets}

\* f_noise(X): outputs salt_and_pepper(X)
f_noise ==
    /\ pc = "idle"
    /\ calls < MaxCalls
    /\ \E x0 \in SeedRows :
          /\ X' = x0
          /\ x_sample' = salt_and_pepper(x0, mrg).val
          /\ mrg' = salt_and_pepper(x0, mrg).mrg
    /\ calls' = calls + 1
    /\ builder' = "f_noise"
    /\ UNCHANGED <<args, weights_list, bias_list, gradient_buffer, returned, add_noise,
                   hiddens, p_X_chain, pc, i, walkback, updated, gsn_costs, show_cost,
                   cost, sampler, checkpoint, construction, process>>

\* f_sample: with one hidden layer the input is X_sample and the output is
\* visible_pX_chain[-1]; otherwise the inputs are network_state_input and the
\* outputs network_state_output + visible_pX_chain
f_sample ==
    /\ pc = "idle"
    /\ calls < MaxCalls
    /\ \E x0 \in SeedRows, p \in Presets :
          \E out \in {sampling_wrapper(IF args.layers = 1
                                         THEN ZeroHiddens(x0)
                                         ELSE StatePreset(p, x0, args.layers), mrg)} :
              /\ hiddens' = out.NSO
              /\ p_X_chain' = out.vis_pX_chain
              /\ x_sample' = Last(out.vis_pX_chain)
              /\ mrg' = out.mrg
    /\ calls' = calls + 1
    /\ builder' = "f_sample"
    /\ add_noise' = TRUE
    /\ UNCHANGED <<args, X, weights_list, bias_list, gradient_buffer, returned,
                   pc, i, walkback, updated, gsn_costs, show_cost, cost, sampler,
                   checkpoint, construction, process>>

\* GSN.sample(initial, n_samples) up to the loop of the sampler it selects
sample_start ==
    /\ pc = "idle"
    /\ calls < MaxCalls
    /\ \E n \in 0..MaxSamples, initial \in SeedRows :
          \E noisy \in {salt_and_pepper(initial, mrg)} :
              /\ n_samples' = n
              /\ samples' = <<initial>>
              /\ mrg' = noisy.mrg
              /\ IF args.layers = 1
                 THEN /\ x_noisy' = noisy.val
                      /\ network_state' = <<>>
                 ELSE /\ x_noisy' = Zeros
                      /\ network_state' = <<ZeroHiddens(noisy.val)>>
    /\ sampled_h' = <<>>
    /\ t' = 0
    /\ calls' = calls + 1
    /\ builder' = "sample"
    /\ pc' = "sample"
    /\ UNCHANGED <<args, X, weights_list, bias_list, gradient_buffer, returned, add_noise,
                   hiddens, p_X_chain, i, walkback, updated, outputs, checkpoint, construction, process>>

\* what an iteration of either sampler leaves alone
SamplerFrame ==
    UNCHANGED <<args, X, weights_list, bias_list, gradient_buffer, returned, calls,
                builder, add_noise, hiddens, p_X_chain, i, walkback, updated, outputs,
                n_samples, checkpoint, construction, process>>

\* one iteration of "for _ in xrange(n_samples-1)" of
\* sample_some_numbers_single_layer
sample_some_numbers_single_layer ==
    /\ pc = "sample"
    /\ args.layers = 1
    /\ t < n_samples - 1
    /\ \E out \in {sampling_wrapper(ZeroHiddens(x_noisy), mrg)} :
          /\ samples' = Append(samples, Last(out.vis_pX_chain))
          /\ \E sampled \in numpy_binomial(Last(out.vis_pX_chain)) :
                /\ x_noisy' = salt_and_pepper(sampled, out.mrg).val
                /\ mrg' = salt_and_pepper(sampled, out.mrg).mrg
    /\ t' = t + 1
    /\ pc' = "sample"
    /\ UNCHANGED <<network_state, sampled_h>>
    /\ SamplerFrame

\* the hidden layers of a network state, net_state_out[1:]
Hiddens(state) == [l \in 1..Top(state) |-> state[l]]

\* one iteration of "for i in xrange(n_samples-1)" of sample_some_numbers,
\* called with k = 1 as everywhere in the repository
sample_some_numbers ==
    /\ pc = "sample"
    /\ args.layers > 1
    /\ t < n_samples - 1
    /\ \E out \in {sampling_wrapper(Last(network_state), mrg)} :
          /\ samples' = samples \o out.vis_pX_chain
          /\ network_state' = Append(network_state, out.NSO)
          /\ sampled_h' = Append(sampled_h, Hiddens(out.NSO))
          /\ mrg' = out.mrg
    /\ t' = t + 1
    /\ pc' = "sample"
    /\ UNCHANGED x_noisy
    /\ SamplerFrame

\* "return numpy.vstack(samples), None" and
\* "return numpy.vstack(visible_chain), sampled_h"
sample_return ==
    /\ pc = "sample"
    /\ ~(t < n_samples - 1)
    /\ pc' = "idle"
    /\ UNCHANGED <<mrg, samples, x_noisy, network_state, sampled_h, t>>
    /\ SamplerFrame

\* a constructed model that is used without being trained further
InitSample ==
    /\ \E layers \in 1..MaxLayers, noiseless_h1 \in BOOLEAN, input_sampling \in BOOLEAN,
          p \in Presets \ {0} :
          Constructed(layers, 1, noiseless_h1, input_sampling, 0, p, p)
    /\ X = Batch(0)
    /\ mrg = [seed |-> 1, normal |-> 0, binomial |-> 0, mask |-> 0]
    /\ Idle
    /\ checkpoint = NoCheckpoint
    /\ construction = Finished(args)
    /\ module_defaults = args
    /\ base_model = NoBaseModel
    /\ factors = NoFactors

NextSample ==
    \/ f_noise
    \/ f_sample
    \/ sample_start
    \/ sample_some_numbers_single_layer
    \/ sample_some_numbers
    \/ sample_return

SpecSample == InitSample /\ [][NextSample]_vars

\* --------------------------------------------------------- parameter files
\* self.params = self.weights_list + self.bias_list: the shared variables, each
\* with the number of dimensions of its type
self_params(W, b) ==
    [n \in 1..Cardinality(DOMAIN W) |-> [ndim |-> 2, value |-> W[n - 1]]]
        \o [n \in 1..Cardinality(DOMAIN b) |-> [ndim |-> 1, value |-> b[n - 1]]]

\* list[:n]
Take(list, n) == SubSeq(list, 1, IF n < Len(list) THEN n ELSE Len(list))

\* list[n-1:], one entry too early
DropOneLess(list, n) == SubSeq(list, n, Len(list))

\* list[n:]
Drop(list, n) == SubSeq(list, n + 1, Len(list))

\* the pairs zip(loaded, own) makes: as many as the shorter list has
ZipLen(loaded, own) ==
    IF Len(loaded) < Cardinality(DOMAIN own) THEN Len(loaded) ELSE Cardinality(DOMAIN own)

\* the first pair of zip(loaded, own) whose p.set_value(lp.get_value()) raises
\* TypeError because lp has not the number of dimensions of p; 0 if none does
FirstRaising(loaded, own, ndim) ==
    LET bad == {n \in 1..ZipLen(loaded, own) : loaded[n].ndim # ndim}
    IN  IF bad = {} THEN 0 ELSE CHOOSE n \in bad : \A m \in bad : n <= m

\* own after [p.set_value(lp.get_value()) for lp, p in zip(loaded, own)], which
\* stops at the first pair that raises
SetValues(loaded, own, ndim) ==
    LET stop == FirstRaising(loaded, own, ndim)
        done == IF stop = 0 THEN ZipLen(loaded, own) ELSE stop - 1
    IN  [l \in DOMAIN own |-> IF l + 1 <= done THEN loaded[l + 1].value ELSE own[l]]

\* save_params(n, self.params): the list is pickled to the parameter file
save_params ==
    /\ pc = "idle"
    /\ checkpoint' = [exists |-> TRUE, params |-> self_params(weights_list, bias_list)]
    /\ builder' = "save_params"
    /\ UNCHANGED <<model, sampler, construction, process, add_noise, hiddens, p_X_chain, mrg, pc, i, walkback,
                   updated, outputs>>

\* load_params(filename)
load_params ==
    /\ pc = "idle"
    /\ builder' = "load_params"
    /\ IF ~checkpoint.exists
       THEN \* 'Could not find existing GSN parameter file' is logged
            UNCHANGED <<weights_list, bias_list, pc>>
       ELSE LET loaded_params == checkpoint.params
                for_weights == Take(loaded_params, Cardinality(DOMAIN weights_list))
                for_biases == Drop(loaded_params, Cardinality(DOMAIN weights_list))
            IN  /\ weights_list' = SetValues(for_weights, weights_list, 2)
                /\ IF FirstRaising(for_weights, weights_list, 2) # 0
                   THEN /\ pc' = "TypeError"
                        /\ UNCHANGED bias_list
                   ELSE /\ bias_list' = SetValues(for_biases, bias_list, 1)
                        /\ pc' = IF FirstRaising(for_biases, bias_list, 1) # 0
                                 THEN "TypeError"
                                 ELSE "idle"
    /\ UNCHANGED <<args, X, gradient_buffer, returned, calls, sampler, checkpoint, construction, process,
                   add_noise, hiddens, p_X_chain, mrg, i, walkback, updated, outputs>>

\* GSN(...): another model is constructed, of the same or of another number of
\* layers; the parameter file stays where it is
GSN_init ==
    /\ pc \in {"idle", "TypeError"}
    /\ \E layers \in 1..MaxLayers, pw \in Presets, pb \in Presets :
          /\ args' = [args EXCEPT !.layers = layers]
          /\ weights_list' = WeightsPreset(pw, layers)
          /\ bias_list' = BiasPreset(pb, layers)
          /\ gradient_buffer' = [W |-> WeightsPreset(0, layers), b |-> BiasPreset(0, layers)]
          /\ hiddens' = [l \in 0..layers |-> Zeros]
    /\ returned' = 0
    /\ calls' = 0
    /\ builder' = "none"
    /\ mrg' = [seed |-> 1, normal |-> 0, binomial |-> 0, mask |-> 0]
    /\ add_noise' = FALSE
    /\ p_X_chain' = <<>>
    /\ pc' = "idle"
    /\ i' = 0
    /\ walkback' = 0
    /\ updated' = <<>>
    /\ x_sample' = Zeros
    /\ gsn_costs' = <<>>
    /\ show_cost' = 0
    /\ cost' = 0
    /\ n_samples' = 0
    /\ samples' = <<>>
    /\ x_noisy' = Zeros
    /\ network_state' = <<>>
    /\ sampled_h' = <<>>
    /\ t' = 0
    /\ construction' = Finished(args')
    /\ module_defaults' = args'
    /\ UNCHANGED <<base_model, factors>>
    /\ UNCHANGED <<X, checkpoint>>

InitParams ==
    /\ \E layers \in 1..MaxLayers, pw \in Presets, pb \in Presets :
          Constructed(layers, 1, TRUE, TRUE, 0, pw, pb)
    /\ X = Batch(0)
    /\ mrg = [seed |-> 1, normal |-> 0, binomial |-> 0, mask |-> 0]
    /\ Idle
    /\ checkpoint = NoCheckpoint
    /\ construction = Finished(args)
    /\ module_defaults = args
    /\ base_model = NoBaseModel
    /\ factors = NoFactors

NextParams ==
    \/ save_params
    \/ load_params
    \/ GSN_init

SpecParams == InitParams /\ [][NextParams]_vars

\* ------------------------------------------------------------- construction
\* the module's defaults, in the model's units; there is no input_size among them
defaults ==
    [layers |-> MaxLayers, walkbacks |-> MaxWalkbacks, noiseless_h1 |-> TRUE,
     input_sampling |-> TRUE, learning_rate |-> 1, momentum |-> 1]

\* the options a caller may give: each one present or not
Configs ==
    {l @@ w @@ n @@ wl :
        l \in {<<>>} \cup {[layers |-> v] : v \in 1..MaxLayers},
        w \in {<<>>} \cup {[walkbacks |-> v] : v \in 0..MaxWalkbacks},
        n \in {<<>>, [input_size |-> Width]},
        wl \in {<<>>} \cup {[weights_list |-> v] : v \in Presets}}

\* dict.get(key): the value in a one-element list, or the empty list for None
Get(d, key) == IF key \in DOMAIN d THEN <<d[key]>> ELSE <<>>

\* a constructor that takes whatever input_size it finds, None too
InputSizeOptional(a) == FALSE

\* `self.args.get("input_size") is None`
InputSizeIsNone(a) == Get(a, "input_size") = <<>>

\* a GSN object on which __init__ has not run yet
Blank ==
    /\ weights_list = <<>>
    /\ bias_list = <<>>
    /\ gradient_buffer = [W |-> <<>>, b |-> <<>>]
    /\ hiddens = <<>>
    /\ returned = 0
    /\ calls = 0
    /\ builder = "none"
    /\ mrg = [seed |-> 1, normal |-> 0, binomial |-> 0, mask |-> 0]
    /\ add_noise = FALSE
    /\ p_X_chain = <<>>
    /\ pc = "GSN.__init__"
    /\ i = 0
    /\ walkback = 0
    /\ updated = <<>>
    /\ x_sample = Zeros
    /\ gsn_costs = <<>>
    /\ show_cost = 0
    /\ cost = 0
    /\ n_samples = 0
    /\ samples = <<>>
    /\ x_noisy = Zeros
    /\ network_state = <<>>
    /\ sampled_h = <<>>
    /\ t = 0

\* the arguments of a call GSN(train_X, valid_X, test_X, config, logger), the
\* `made`-th of the process
Called(train_X, config, made) ==
    [train_X |-> train_X, config |-> config, outdir |-> FALSE,
     config_file |-> FALSE, N_input |-> <<>>, graphs |-> "none", made |-> made]

\* the module is imported and GSN(...) is entered for the first time: nothing of
\* the model exists yet
InitConstruction ==
    /\ \E train_X \in {<<>>, <<Width>>}, config \in Configs :
          construction = Called(train_X, config, 1)
    /\ module_defaults = defaults
    /\ args = <<>>
    /\ X = Batch(0)
    /\ Blank
    /\ checkpoint = NoCheckpoint
    /\ base_model = NoBaseModel
    /\ factors = NoFactors

\* what no step of the constructor touches
Untouched ==
    UNCHANGED <<X, returned, calls, builder, mrg, add_noise, p_X_chain, i, walkback,
                updated, outputs, sampler, checkpoint, base_model, factors>>

\* a construction that works on a copy of the defaults
Model_init_on_copy ==
    /\ pc = "GSN.__init__"
    /\ args' = IF construction.config # <<>> /\ module_defaults # <<>>
               THEN construction.config @@ module_defaults
               ELSE IF module_defaults # <<>> THEN module_defaults ELSE construction.config
    /\ pc' = "outdir"
    /\ Untouched
    /\ UNCHANGED <<construction, module_defaults, weights_list, bias_list, gradient_buffer, hiddens>>

\* Model.__init__(config, defaults): create_dictionary_like hands a mapping back
\* as it is, so defaults_dict is the module's dictionary itself; update() writes
\* the config into it and self.args is bound to it
Model_init ==
    /\ pc = "GSN.__init__"
    /\ module_defaults' = IF construction.config # <<>> /\ module_defaults # <<>>
                          THEN construction.config @@ module_defaults
                          ELSE module_defaults
    /\ args' = IF module_defaults # <<>> THEN module_defaults' ELSE construction.config
    /\ pc' = "outdir"
    /\ Untouched
    /\ UNCHANGED <<construction, weights_list, bias_list, gradient_buffer, hiddens>>

\* data.mkdir_p(self.outdir)
mkdir_p ==
    /\ pc = "outdir"
    /\ construction' = [construction EXCEPT !.outdir = TRUE]
    /\ pc' = "config"
    /\ Untouched
    /\ UNCHANGED <<args, module_defaults, weights_list, bias_list, gradient_buffer, hiddens>>

\* the config is written to outdir/config
save_config ==
    /\ pc = "config"
    /\ construction' = [construction EXCEPT !.config_file = TRUE]
    /\ pc' = "input"
    /\ Untouched
    /\ UNCHANGED <<args, module_defaults, weights_list, bias_list, gradient_buffer, hiddens>>

\* N_input: from the example dataset, else from input_size, else the call fails
input_data ==
    /\ pc = "input"
    /\ IF construction.train_X = <<>>
       THEN /\ construction' = [construction EXCEPT !.N_input = Get(args, "input_size")]
            /\ pc' = IF InputSizeIsNone(args) THEN "AssertionError" ELSE "parameters"
       ELSE /\ construction' = [construction EXCEPT !.N_input = construction.train_X]
            /\ pc' = "parameters"
    /\ Untouched
    /\ UNCHANGED <<args, module_defaults, weights_list, bias_list, gradient_buffer, hiddens>>

\* weights_list and bias_list: those of the config, else new ones (weights drawn
\* by numpy's generator, biases zero)
parameters ==
    /\ pc = "parameters"
    /\ IF Get(construction.config, "weights_list") = <<>>
       THEN \E pw \in Presets \ {0} : weights_list' = WeightsPreset(pw, args.layers)
       ELSE weights_list' = WeightsPreset(construction.config.weights_list, args.layers)
    /\ bias_list' = BiasPreset(0, args.layers)
    /\ pc' = "graphs"
    /\ Untouched
    /\ UNCHANGED <<args, module_defaults, construction, gradient_buffer, hiddens>>

\* the training and reconstruction chains, costs, gradients and the compiled
\* functions; gsn_costs[-1] raises on the empty chain of walkbacks = 0
graphs ==
    /\ pc = "graphs"
    /\ IF args.walkbacks = 0
       THEN /\ construction' = [construction EXCEPT !.graphs = "build_gsn"]
            /\ pc' = "IndexError"
            /\ UNCHANGED <<gradient_buffer, hiddens>>
       ELSE /\ construction' = [construction EXCEPT !.graphs = "compiled"]
            /\ gradient_buffer' = [W |-> WeightsPreset(0, args.layers),
                                   b |-> BiasPreset(0, args.layers)]
            /\ hiddens' = [l \in 0..args.layers |-> Zeros]
            /\ pc' = "idle"
    /\ Untouched
    /\ UNCHANGED <<args, module_defaults, weights_list, bias_list>>

\* the call has returned or raised, and GSN(...) is called again in the same
\* process: a new object, the module as the earlier calls left it
GSN_again ==
    /\ pc \in {"idle", "AssertionError", "IndexError"}
    /\ construction.made < MaxModels
    /\ \E train_X \in {<<>>, <<Width>>}, config \in Configs :
          construction' = Called(train_X, config, construction.made + 1)
    /\ args' = <<>>
    /\ weights_list' = <<>>
    /\ bias_list' = <<>>
    /\ gradient_buffer' = [W |-> <<>>, b |-> <<>>]
    /\ hiddens' = <<>>
    /\ returned' = 0
    /\ calls' = 0
    /\ builder' = "none"
    /\ mrg' = [seed |-> 1, normal |-> 0, binomial |-> 0, mask |-> 0]
    /\ add_noise' = FALSE
    /\ p_X_chain' = <<>>
    /\ pc' = "GSN.__init__"
    /\ i' = 0
    /\ walkback' = 0
    /\ updated' = <<>>
    /\ x_sample' = Zeros
    /\ gsn_costs' = <<>>
    /\ show_cost' = 0
    /\ cost' = 0
    /\ n_samples' = 0
    /\ samples' = <<>>
    /\ x_noisy' = Zeros
    /\ network_state' = <<>>
    /\ sampled_h' = <<>>
    /\ t' = 0
    /\ UNCHANGED <<X, checkpoint, module_defaults, base_model, factors>>

NextConstruction ==
    \/ Model_init
    \/ mkdir_p
    \/ save_config
    \/ input_data
    \/ parameters
    \/ graphs
    \/ GSN_again

SpecConstruction == InitConstruction /\ [][NextConstruction]_vars

\* ------------------------------------------------------ every call together
\* a constructed model, with noise on every hidden layer and input sampling, on
\* which training, evaluation and sampling calls are made in any order
InitCalls ==
    /\ \E layers \in 1..(MaxLayers - 1), p \in Presets \ {0} :
          Constructed(layers, MaxWalkbacks, FALSE, TRUE, 0, p, p)
    /\ X = Batch(0)
    /\ mrg = [seed |-> 1, normal |-> 0, binomial |-> 0, mask |-> 0]
    /\ Idle
    /\ checkpoint = NoCheckpoint
    /\ construction = Finished(args)
    /\ module_defaults = args
    /\ base_model = NoBaseModel
    /\ factors = NoFactors

\* GSN.train(train_X, valid_X, test_X, continue_training): the definition has no
\* statement in its body, so a call computes and changes nothing
GSN_train ==
    /\ pc = "idle"
    /\ builder' = "train"
    /\ UNCHANGED <<model, sampler, checkpoint, construction, process, outputs, add_noise, hiddens,
                   p_X_chain, mrg, pc, i, walkback, updated>>

NextCalls ==
    \/ NextTrain
    \/ NextSample
    \/ GSN_train

SpecCalls == InitCalls /\ [][NextCalls]_vars

\* ---------------------------------------------------------------------------
\* Model.train(optimizer) and Model.set_param_values(param_values) (model.py),
\* on a model whose class inherits them
\* ---------------------------------------------------------------------------

\* what the caller passes as `optimizer`: nothing, an instance of Optimizer, or
\* an object of another class
OptimizerArgs == {"None", "Optimizer", "object"}

\* how optimizer.train() ends: it returns, it raises an exception of the class
\* Exception (Optimizer.train itself raises NotImplementedError), or it raises
\* one that is no Exception (KeyboardInterrupt, SystemExit)
TrainOutcomes == {"returns", "Exception", "KeyboardInterrupt"}

\* how AdaDelta(model = self, dataset = self.dataset) ends
AdaDeltaOutcomes == {"Optimizer", "raises"}

\* a parameter returned by get_params(): a shared variable, or an object without
\* set_value
ParamKinds == {"shared", "object"}

\* the values a parameter takes
ParamValues == 0..1

\* all sequences over S of the lengths lo..hi
SeqsOf(S, lo, hi) == UNION {[1..n -> S] : n \in lo..hi}

\* a model with the given parameters, on which no method is running
BaseModel(dataset, kinds, params) ==
    [method |-> "none", at |-> "idle", result |-> "none",
     dataset |-> dataset, kinds |-> kinds, params |-> params,
     optimizer |-> "None", train |-> "returns", AdaDelta |-> "Optimizer",
     param_values |-> <<>>, entry |-> params, k |-> 0]

\* nothing of a GSN exists next to the model
NoGSN ==
    /\ weights_list = <<>>
    /\ bias_list = <<>>
    /\ gradient_buffer = [W |-> <<>>, b |-> <<>>]
    /\ hiddens = <<>>
    /\ returned = 0
    /\ calls = 0
    /\ builder = "none"
    /\ mrg = [seed |-> 1, normal |-> 0, binomial |-> 0, mask |-> 0]
    /\ add_noise = FALSE
    /\ p_X_chain = <<>>
    /\ pc = "idle"
    /\ i = 0
    /\ walkback = 0
    /\ updated = <<>>
    /\ x_sample = Zeros
    /\ gsn_costs = <<>>
    /\ show_cost = 0
    /\ cost = 0
    /\ n_samples = 0
    /\ samples = <<>>
    /\ x_noisy = Zeros
    /\ network_state = <<>>
    /\ sampled_h = <<>>
    /\ t = 0
    /\ args = defaults
    /\ X = Batch(0)
    /\ checkpoint = NoCheckpoint
    /\ construction = Called(<<>>, <<>>, 0)
    /\ module_defaults = defaults

InitModel ==
    /\ \E dataset \in BOOLEAN, n \in 0..MaxParams :
          \E kinds \in [1..n -> ParamKinds] :
             base_model = BaseModel(dataset, kinds, [p \in 1..n |-> 0])
    /\ factors = NoFactors
    /\ NoGSN

\* everything but the model
gsn == <<args, X, weights_list, bias_list, builder, add_noise, hiddens, p_X_chain,
         mrg, pc, i, walkback, updated, x_sample, gsn_costs, show_cost, cost,
         gradient_buffer, returned, calls,
         n_samples, samples, x_noisy, network_state, sampled_h, t, checkpoint,
         construction, module_defaults, factors>>

\* a call of train(optimizer); the way optimizer.train() and AdaDelta(...) would
\* end is fixed with the call
Model_train ==
    /\ base_model.at = "idle"
    /\ \E optimizer \in OptimizerArgs, train \in TrainOutcomes, AdaDelta \in AdaDeltaOutcomes :
          base_model' = [base_model EXCEPT !.method = "train", !.at = "optimizer is None",
                                           !.result = "none", !.optimizer = optimizer,
                                           !.train = train, !.AdaDelta = AdaDelta,
                                           !.entry = base_model.params,
                                           !.param_values = <<>>, !.k = 0]
    /\ UNCHANGED gsn

\* lines 172-178: the default optimizer
default_optimizer ==
    /\ base_model.method = "train"
    /\ base_model.at = "optimizer is None"
    /\ base_model' =
          IF base_model.optimizer # "None"
          THEN [base_model EXCEPT !.at = "isinstance"]
          ELSE IF ~base_model.dataset
          THEN [base_model EXCEPT !.at = "idle", !.result = "False"]
          ELSE IF base_model.AdaDelta = "raises"
          THEN [base_model EXCEPT !.at = "idle", !.result = "raised"]
          ELSE [base_model EXCEPT !.at = "isinstance", !.optimizer = "Optimizer"]
    /\ UNCHANGED gsn

\* lines 180-184
isinstance_Optimizer ==
    /\ base_model.method = "train"
    /\ base_model.at = "isinstance"
    /\ base_model' =
          IF base_model.optimizer # "Optimizer"
          THEN [base_model EXCEPT !.at = "idle", !.result = "False"]
          ELSE [base_model EXCEPT !.at = "try"]
    /\ UNCHANGED gsn

\* a handler that catches whatever optimizer.train() raises
optimizer_train_catch_all ==
    /\ base_model.method = "train"
    /\ base_model.at = "try"
    /\ base_model' = [base_model EXCEPT !.at = "idle",
                         !.result = IF base_model.train = "returns" THEN "True" ELSE "False"]
    /\ UNCHANGED gsn

\* lines 186-194: optimizer.train() under `except Exception`
optimizer_train ==
    /\ base_model.method = "train"
    /\ base_model.at = "try"
    /\ base_model' = [base_model EXCEPT !.at = "idle",
                         !.result = CASE base_model.train = "returns" -> "True"
                                      [] base_model.train = "Exception" -> "False"
                                      [] OTHER -> "raised"]
    /\ UNCHANGED gsn

\* a call of set_param_values(param_values)
Model_set_param_values ==
    /\ base_model.at = "idle"
    /\ \E param_values \in SeqsOf(ParamValues, 0, MaxParams) :
          base_model' = [base_model EXCEPT !.method = "set_param_values", !.at = "len",
                                           !.result = "none", !.param_values = param_values,
                                           !.entry = base_model.params, !.k = 0]
    /\ UNCHANGED gsn

\* lines 351-357: the length check
len_param_values ==
    /\ base_model.method = "set_param_values"
    /\ base_model.at = "len"
    /\ base_model' =
          IF Len(base_model.param_values) # Len(base_model.params)
          THEN [base_model EXCEPT !.at = "idle", !.result = "False"]
          ELSE [base_model EXCEPT !.at = "zip", !.k = 1]
    /\ UNCHANGED gsn

\* a loop that looks at every parameter before it sets any
set_value_checked_first ==
    /\ base_model.method = "set_param_values"
    /\ base_model.at = "zip"
    /\ base_model' =
          IF \E p \in 1..Len(base_model.params) : base_model.kinds[p] # "shared"
          THEN [base_model EXCEPT !.at = "idle", !.result = "False"]
          ELSE [base_model EXCEPT !.at = "idle", !.result = "True",
                                  !.params = base_model.param_values]
    /\ UNCHANGED gsn

\* lines 359-366: one iteration of the loop over zip(params, param_values), or
\* its end
set_value ==
    /\ base_model.method = "set_param_values"
    /\ base_model.at = "zip"
    /\ base_model' =
          IF base_model.k > Len(base_model.params)
          THEN [base_model EXCEPT !.at = "idle", !.result = "True"]
          ELSE IF base_model.kinds[base_model.k] = "shared"
          THEN [base_model EXCEPT !.params[base_model.k] = base_model.param_values[base_model.k],
                                  !.k = base_model.k + 1]
          ELSE [base_model EXCEPT !.at = "idle", !.result = "False"]
    /\ UNCHANGED gsn

NextModel ==
    \/ Model_train
    \/ default_optimizer
    \/ isinstance_Optimizer
    \/ optimizer_train
    \/ Model_set_param_values
    \/ len_param_values
    \/ set_value

SpecModel == InitModel /\ [][NextModel]_vars

\* ---------------------------------------------------------------------------
\* closest_to_square_factors(n) (misc.py).  Its arithmetic is on floats: a float
\* holds MantissaBits significant bits (53 in a double), every operation
\* rounds its exact result to the nearest float, ties to the even one.
\* ---------------------------------------------------------------------------

\* the number of bits of a positive integer, 0 for 0
BitLength(n) ==
    CHOOSE L \in 0..(3 * MantissaBits) : n < 2^L /\ (L = 0 \/ 2^(L - 1) <= n)

\* a / b rounded to the nearest integer, ties to the even one
RoundDiv(a, b) ==
    LET q == a \div b
        r == a % b
    IN  IF 2 * r > b \/ (2 * r = b /\ q % 2 = 1) THEN q + 1 ELSE q

\* float(n): n rounded to MantissaBits significant bits
float(n) ==
    LET e == BitLength(n) - MantissaBits
    IN  IF e <= 0 THEN n ELSE RoundDiv(n, 2^e) * 2^e

\* numpy.ceil(numpy.sqrt(f)) for an integer valued f >= 1: the root is rounded
\* to a float before ceil looks at it, and is rounded down to the integer m
\* below it when it is less than half a unit in the last place above m
numpy_ceil_sqrt(f) ==
    LET m == CHOOSE r \in 0..f : r * r <= f /\ (r + 1) * (r + 1) > f
        K == 2 * 2^(MantissaBits - BitLength(m))
    IN  IF m * m = f THEN m
        ELSE IF f * K * K < (m * K + 1) * (m * K + 1) THEN m
        ELSE m + 1

\* the floor division of integers, which leaves no remainder to look at
divide_floor(f, test) == [is_integer |-> TRUE, int |-> f \div test]

\* n / test with n converted to a float: whether the rounded quotient
\* is_integer(), and int() of it
divide(f, test) ==
    LET L == BitLength(f \div test)
    IN  IF L >= MantissaBits
        THEN [is_integer |-> TRUE,
              int |-> RoundDiv(f, test * 2^(L - MantissaBits)) * 2^(L - MantissaBits)]
        ELSE LET D == 2^(MantissaBits - L)
                 y == RoundDiv(f * D, test)
             IN  [is_integer |-> y % D = 0, int |-> y \div D]

\* the arguments of the calls: the integers a float holds exactly, and as many
\* above them
Arguments == 1..(2 * 2^MantissaBits)

\* closest_to_square_factors(n) is entered
Entered(n) == [at |-> "sqrt", n |-> n, test |-> 0, returned |-> <<>>]

InitFactors ==
    /\ \E n \in Arguments : factors = Entered(n)
    /\ base_model = NoBaseModel
    /\ NoGSN

\* everything but the call
rest == <<args, X, weights_list, bias_list, builder, add_noise, hiddens, p_X_chain,
          mrg, pc, i, walkback, updated, x_sample, gsn_costs, show_cost, cost,
          gradient_buffer, returned, calls,
          n_samples, samples, x_noisy, network_state, sampled_h, t, checkpoint,
          construction, module_defaults, base_model>>

\* line 120: test = numpy.ceil(numpy.sqrt(float(n)))
ceil_sqrt ==
    /\ factors.at = "sqrt"
    /\ factors' = [factors EXCEPT !.at = "while",
                                  !.test = numpy_ceil_sqrt(float(factors.n))]
    /\ UNCHANGED rest

\* lines 121-122: "while not (n/test).is_integer(): test -= 1"; n / 0.0 of numpy
\* is inf, which is no integer
while_not_integer ==
    /\ factors.at = "while"
    /\ factors.test > -1
    /\ factors' = IF factors.test >= 1 /\ divide(float(factors.n), factors.test).is_integer
                  THEN [factors EXCEPT !.at = "if"]
                  ELSE [factors EXCEPT !.test = factors.test - 1]
    /\ UNCHANGED rest

\* lines 123-125: "if test < 1: test = 1" and the return
return_factors ==
    /\ factors.at = "if"
    /\ LET test == IF factors.test < 1 THEN 1 ELSE factors.test
       IN  factors' = [factors EXCEPT !.at = "done", !.test = test,
                          !.returned = <<test, divide(float(factors.n), test).int>>]
    /\ UNCHANGED rest

\* the next call
closest_to_square_factors ==
    /\ factors.at = "done"
    /\ \E n \in Arguments : factors' = Entered(n)
    /\ UNCHANGED rest

NextFactors ==
    \/ ceil_sqrt
    \/ while_not_integer
    \/ return_factors
    \/ closest_to_square_factors

\* a call that has begun goes on
SpecFactors == InitFactors /\ [][NextFactors]_vars /\ WF_vars(NextFactors)

\* ----------------------------------------------------------------- claims
Running == pc \in {"odd", "even"}
Returned == pc \in {"return", "done", "IndexError"}
Forward == builder \in {"build_gsn", "build_gsn_scan", "update_layers_scan_step"}

\* the visible layer has been updated in the sweep that is under way
VisibleUpdated == \E n \in 1..Len(updated) : updated[n] = 0

\* a sweep is under way: some but not all of its layers have been updated
MidSweep == Running /\ ~(pc = FirstPass(builder) /\ i = FirstIndex(pc))

\* C1: build_gsn appends exactly one visible prediction per completed full
\* sweep, whatever the number of even layers: between sweeps the chain length
\* equals the number of completed sweeps, within a sweep it exceeds it by one
\* exactly when the visible layer has been updated, and the returned chain has
\* length walkbacks.
C1_ChainLength ==
    (builder = "build_gsn" /\ args.walkbacks >= 1) =>
        /\ Running =>
              Len(p_X_chain) = walkback + (IF MidSweep /\ VisibleUpdated THEN 1 ELSE 0)
        /\ Returned => (Len(p_X_chain) = walkback /\ Len(p_X_chain) = args.walkbacks)

\* a returned chain of two sweeps over a stack with two even layers
C1_Witness ==
    /\ builder = "build_gsn" /\ pc = "done"
    /\ args.layers >= 2 /\ args.walkbacks = 2
    /\ Len(p_X_chain) = 2

\* the pre-activation of layer l written out unit by unit from its neighbours
RefPre(h, W, b, l) ==
    LET above == [r \in Units |-> SumTo([c \in Units |-> h[l + 1][c] * W[l][r][c]], Width)]
        below == [c \in Units |-> SumTo([r \in Units |-> h[l - 1][r] * W[l - 1][r][c]], Width)]
    IN  IF l = 0 THEN [k \in Units |-> above[k] + b[l][k]]
        ELSE IF l = Top(h) THEN [k \in Units |-> below[k] + b[l][k]]
        ELSE [k \in Units |-> above[k] + below[k] + b[l][k]]

\* the layers the update of layer l may read
Neighbours(h, l) == {l - 1, l + 1} \cap DOMAIN h

\* the stack with layer j changed in every unit
Perturb(h, j) == [h EXCEPT ![j] = [k \in Units |-> h[j][k] + 1]]

\* what an update of layer l stores in the stack, given its pre-activation
Stored(pre, l) ==
    LET a == Activate(pre, l, NoiseGate(l, add_noise, args.noiseless_h1), mrg)
    IN  IF l = 0 THEN Corrupt(a.val, args.input_sampling, a.mrg).val ELSE a.val

\* C2: every update of layer i computes its pre-activation from its neighbours
\* only: W_0 transposed times layer 1 plus b_0 for the visible layer, W_{i-1}
\* times the layer below plus b_i for the top layer, both terms for an interior
\* layer; changing the layer's own value or any non-adjacent layer changes
\* nothing of the result.
C2_ReadsNeighbours ==
    [][Running =>
          /\ hiddens'[i] = Stored(RefPre(hiddens, weights_list, bias_list, i), i)
          /\ \A j \in (DOMAIN hiddens) \ Neighbours(hiddens, i) :
                PreActivation(Perturb(hiddens, j), weights_list, bias_list, i)
                    = PreActivation(hiddens, weights_list, bias_list, i)]_vars

\* an interior layer was just updated and each of its two neighbours mattered
C2_Witness ==
    /\ updated # <<>>
    /\ MidSweep \/ Returned
    /\ LET l == Last(updated)
           pre == PreActivation(hiddens, weights_list, bias_list, l)
       IN  /\ 0 < l /\ l < Top(hiddens)
           /\ PreActivation(Perturb(hiddens, l - 1), weights_list, bias_list, l) # pre
           /\ PreActivation(Perturb(hiddens, l + 1), weights_list, bias_list, l) # pre

\* the closed form of one noise-free walkback of a one-hidden-layer model
ClosedForm(x, W, b) ==
    LET h1 == hidden_activation(VecAdd(Dot(x, W[0]), b[1]))
    IN  visible_activation(VecAdd(Dot(h1, Transpose(W[0])), b[0]))

\* C3: one hidden layer, no noise, one walkback: the single chain entry built
\* by build_gsn on input X is visible_activation(W^T . hidden_activation(W . X
\* + b1) + b0), the hidden layer being computed from the uncorrupted X.
C3_ClosedForm ==
    (/\ builder = "build_gsn" /\ pc = "done"
     /\ args.layers = 1 /\ args.walkbacks = 1 /\ ~add_noise)
        => p_X_chain = <<ClosedForm(X, weights_list, bias_list)>>

\* such a chain, on weights and an input for which the hidden layer is not zero
\* and the reconstruction is not the one of a zero hidden layer
C3_Witness ==
    /\ builder = "build_gsn" /\ pc = "done"
    /\ args.layers = 1 /\ args.walkbacks = 1 /\ ~add_noise
    /\ hiddens[1] # Zeros
    /\ p_X_chain = <<ClosedForm(X, weights_list, bias_list)>>
    /\ p_X_chain # <<visible_activation(bias_list[0])>>

\* range(start, n + 1, 2) as a sequence
EveryOther(start, n) ==
    IF n < start THEN <<>> ELSE [k \in 1..(((n - start) \div 2) + 1) |-> start + 2 * (k - 1)]

\* all odd layers in increasing order, then all even layers in increasing order
OddThenEven(n) == EveryOther(1, n) \o EveryOther(0, n)

\* all even layers in increasing order, then all odd layers in increasing order
EvenThenOdd(n) == EveryOther(0, n) \o EveryOther(1, n)

IsPrefix(a, b) == Len(a) <= Len(b) /\ \A n \in 1..Len(a) : a[n] = b[n]

\* a sweep has been completed and no later one has begun
SweepComplete ==
    \/ Returned /\ walkback > 0
    \/ pc = FirstPass(builder) /\ i = FirstIndex(pc) /\ walkback > 0

\* C4: in build_gsn, build_gsn_scan and the sampling step every sweep updates
\* the odd layers first, in increasing order, and then the even layers, in
\* increasing order: the layers updated so far in a sweep are always a prefix
\* of 1, 3, ..., 0, 2, ..., and a completed sweep has updated exactly that list.
C4_OddThenEven ==
    (Forward /\ (Running \/ Returned)) =>
        /\ IsPrefix(updated, OddThenEven(args.layers))
        /\ SweepComplete => updated = OddThenEven(args.layers)

\* a completed sampling step over three hidden layers
C4_Witness ==
    /\ builder = "update_layers_scan_step" /\ pc = "done"
    /\ args.layers = 3
    /\ updated = <<1, 3, 0, 2>>

GivenHiddens == builder = "build_gsn_given_hiddens"

\* C5 as stated: within each sweep of build_gsn_given_hiddens the visible layer
\* is reconstructed last, from a layer 1 already updated in that sweep.
C5_VisibleLast ==
    (GivenHiddens /\ (MidSweep \/ SweepComplete) /\ VisibleUpdated) =>
        /\ \E n, m \in 1..Len(updated) : n < m /\ updated[n] = 1 /\ updated[m] = 0
        /\ SweepComplete => Last(updated) = 0

\* C5 amended: each sweep of build_gsn_given_hiddens runs the even pass and
\* then the odd pass, so the visible layer is the first layer reconstructed in
\* the sweep, before any odd layer of that sweep is updated; in the first sweep
\* it is computed from layer 1 as the caller supplied it.
C5_EvenThenOdd ==
    (GivenHiddens /\ (Running \/ Returned)) =>
        /\ IsPrefix(updated, EvenThenOdd(args.layers))
        /\ SweepComplete => updated = EvenThenOdd(args.layers)
        /\ p_X_chain # <<>> =>
              \E p \in Presets :
                  p_X_chain[1] = visible_activation(
                      RefPre(StatePreset(p, X, args.layers), weights_list, bias_list, 0))

\* two completed reversed sweeps over three hidden layers
C5_Witness ==
    /\ GivenHiddens /\ pc = "done"
    /\ args.layers = 3 /\ args.walkbacks = 2
    /\ updated = <<0, 2, 1, 3>>
    /\ Len(p_X_chain) = 2

\* C6: with noiseless_h1 set, an update of layer 1 draws no Gaussian noise and
\* stores the bare hidden activation whether add_noise is true or false, and
\* only layer 1 is affected: an update of any hidden layer i >= 2 draws
\* Gaussian noise exactly when add_noise is true.
C6_NoiselessH1 ==
    [][Running =>
          /\ (i = 1 /\ args.noiseless_h1) =>
                /\ mrg'.normal = mrg.normal
                /\ hiddens'[1] = hidden_activation(RefPre(hiddens, weights_list, bias_list, 1))
          /\ i >= 2 => (mrg'.normal > mrg.normal <=> add_noise)]_vars

\* second sweep of a noisy build with noiseless_h1: layer 1 drew nothing again,
\* layer 3 of the same pass drew its noise
C6_Witness ==
    /\ builder = "build_gsn" /\ add_noise /\ args.noiseless_h1
    /\ args.layers = 3 /\ walkback = 1
    /\ updated = <<1, 3>>
    /\ mrg.normal = 6

\* noise is enabled for an update of layer l
NoiseEnabled(l) == l # 0 /\ add_noise /\ ~(l = 1 /\ args.noiseless_h1)

\* the random stream after one more Gaussian draw
AfterNormal(m) == [m EXCEPT !.normal = @ + 1]

\* C7: an update of a hidden layer with noise enabled for it draws Gaussian
\* noise exactly twice, the first draw added before the hidden activation and
\* the second after it; with noise disabled it draws none; an update of the
\* visible layer never draws Gaussian noise.
C7_TwoGaussianDraws ==
    [][Running =>
          /\ mrg'.normal = mrg.normal + (IF NoiseEnabled(i) THEN 2 ELSE 0)
          /\ NoiseEnabled(i) =>
                hiddens'[i] =
                    VecAdd(hidden_activation(
                               VecAdd(RefPre(hiddens, weights_list, bias_list, i),
                                      NormalDraw(mrg))),
                           NormalDraw(AfterNormal(mrg)))
          /\ (i # 0 /\ ~NoiseEnabled(i)) =>
                hiddens'[i] = hidden_activation(RefPre(hiddens, weights_list, bias_list, i))]_vars

\* a first hidden layer updated with both of its draws, the second leaving the
\* range of the activation, then the visible layer updated without any draw
C7_Witness ==
    /\ builder = "build_gsn" /\ add_noise /\ ~args.noiseless_h1
    /\ args.layers = 1 /\ walkback = 1
    /\ updated = <<1, 0>>
    /\ mrg.normal = 2
    /\ \E k \in Units : hiddens[1][k] > 1 \/ hiddens[1][k] < -1

\* the stack with the clean prediction in place of the stored visible state
WithCleanVisible == [hiddens EXCEPT ![0] = Last(p_X_chain)]

\* C8: an update of the visible layer appends the clean visible activation to
\* the chain and stores in the stack the activation resampled (when
\* input_sampling is set) and then masked; the update of layer 1 in the next
\* sweep is computed from that stored value.
C8_CleanChainCorruptedState ==
    [][Running =>
          /\ i = 0 =>
                LET clean == visible_activation(RefPre(hiddens, weights_list, bias_list, 0))
                    sampled == IF args.input_sampling
                               THEN [k \in Units |->
                                        IF UniformDraw(mrg)[k] < clean[k] THEN ONE ELSE 0]
                               ELSE clean
                    after == IF args.input_sampling
                             THEN [mrg EXCEPT !.binomial = @ + 1]
                             ELSE mrg
                IN  /\ p_X_chain' = Append(p_X_chain, clean)
                    /\ hiddens'[0] = [k \in Units |-> sampled[k] * MaskDraw(after)[k]]
          /\ (i = 1 /\ Forward /\ walkback >= 1) =>
                LET pre == VecAdd(Dot(hiddens[0], weights_list[0]),
                                  IF Top(hiddens) = 1
                                  THEN bias_list[1]
                                  ELSE VecAdd(Dot(hiddens[2], Transpose(weights_list[1])),
                                              bias_list[1]))
                IN  hiddens'[1] = Stored(pre, 1)]_vars

\* second sweep of a build without Gaussian noise: the stored visible state
\* differs from the chain entry, and layer 1 has just been computed to a value
\* the clean chain entry would not have given
C8_Witness ==
    /\ builder = "build_gsn" /\ ~add_noise
    /\ walkback = 1 /\ updated = <<1>>
    /\ hiddens[0] # Last(p_X_chain)
    /\ hiddens[1] = hidden_activation(PreActivation(hiddens, weights_list, bias_list, 1))
    /\ hiddens[1] # hidden_activation(
                        PreActivation(WithCleanVisible, weights_list, bias_list, 1))

\* the costs of the first n chain entries, each computed on its own and added
RECURSIVE SingleStepCosts(_)
SingleStepCosts(n) ==
    IF n = 0 THEN 0 ELSE cost_function(p_X_chain[n], X) + SingleStepCosts(n - 1)

\* the builders that return the summed training cost
Costed == (builder = "build_gsn" /\ add_noise) \/ builder = "build_gsn_scan"

\* C9: the training cost is the sum over every chain entry of its elementwise
\* cost against the true input X: there is one cost per chain entry, in chain
\* order, and the total is the sum of the individually computed costs.
C9_CostIsSumOverChain ==
    (Costed /\ pc = "done") =>
        /\ Len(gsn_costs) = Len(p_X_chain)
        /\ \A n \in 1..Len(p_X_chain) : gsn_costs[n] = cost_function(p_X_chain[n], X)
        /\ cost = SingleStepCosts(Len(p_X_chain))

\* a training chain of two entries with different, non-zero costs
C9_Witness ==
    /\ Costed /\ pc = "done"
    /\ Len(p_X_chain) = 2
    /\ gsn_costs[1] > 0 /\ gsn_costs[2] > 0 /\ gsn_costs[1] # gsn_costs[2]
    /\ cost = gsn_costs[1] + gsn_costs[2]

\* the sum, entry by entry, of the costs of the first n entries of a chain
RECURSIVE CostOfEntries(_, _, _)
CostOfEntries(chain, x, n) ==
    IF n = 0 THEN 0 ELSE cost_function(chain[n], x) + CostOfEntries(chain, x, n - 1)

\* the summed cost of all entries of the training chain that the parameters
\* Wv, bv give for the input and the stream of the step
SummedCost(Wv, bv) ==
    CHOOSE total \in {CostOfEntries(chain, X', Len(chain)) :
                         chain \in {build_gsn(X', Wv, bv, TRUE, mrg).p_X_chain}} : TRUE

\* the gradient of that sum at the parameters the step started from
GradientOfSum ==
    LET at == CHOOSE v \in {SummedCost(weights_list, bias_list)} : TRUE
    IN  [W |-> [l \in DOMAIN weights_list |-> [r \in Units |-> [c \in Units |->
                    SummedCost([weights_list EXCEPT ![l][r][c] = @ + 1], bias_list) - at]]],
         b |-> [l \in DOMAIN bias_list |-> [k \in Units |->
                    SummedCost(weights_list, [bias_list EXCEPT ![l][k] = @ + 1]) - at]]]

\* a call of f_learn or f_cost has just returned
TrainingStep == calls' = calls + 1 /\ builder' \in {"f_learn", "f_cost"}

\* C10: what f_learn and f_cost return is the cost of the last chain entry only;
\* the gradient that f_learn feeds into the momentum buffer and the parameter
\* update is the gradient of the sum of the costs of all chain entries, and
\* f_cost updates nothing.
C10_ReturnsLastTrainsOnSum ==
    [][TrainingStep =>
          /\ returned' = cost_function(Last(p_X_chain'), X')
          /\ IF builder' = "f_learn"
             THEN /\ gradient_buffer' = m_gradient(gradient_buffer, GradientOfSum)
                  /\ [W |-> weights_list', b |-> bias_list'] =
                        param_updates([W |-> weights_list, b |-> bias_list],
                                      gradient_buffer')
             ELSE UNCHANGED <<weights_list, bias_list, gradient_buffer>>]_vars

\* a training step over a chain of two entries returned less than the summed
\* cost and moved the parameters along a gradient that the last entry's cost
\* alone does not have
C10_Witness ==
    /\ builder = "f_learn" /\ calls = 1
    /\ Len(p_X_chain) = 2
    /\ returned = gsn_costs[2] /\ cost > returned
    /\ args.momentum = 0
    /\ gradient_buffer # gradient_of_show_cost(X, WeightsPreset(1, Top(hiddens)),
                                                BiasPreset(1, Top(hiddens)),
                                                [mrg EXCEPT !.normal = 0, !.binomial = 0, !.mask = 0])
    /\ weights_list # WeightsPreset(1, Top(hiddens))

\* the gradient the step computes at the parameters it started from
StepGradient == gradient(X', weights_list, bias_list, mrg)

\* C11: the momentum buffers start at zero; a training step sets, for every
\* parameter entry, buffer' = momentum * buffer + (1 - momentum) * gradient and
\* parameter' = parameter - learning_rate * buffer' (the new buffer); between
\* training steps the buffers keep their value.
C11_MomentumUpdate ==
    /\ \A l \in DOMAIN gradient_buffer.b : gradient_buffer.b[l] = Zeros
    /\ \A l \in DOMAIN gradient_buffer.W : \A r \in Units : gradient_buffer.W[l][r] = Zeros
    /\ [][IF builder' = "f_learn" /\ calls' = calls + 1
          THEN /\ \A l \in DOMAIN weights_list : \A r \in Units : \A c \in Units :
                     /\ gradient_buffer'.W[l][r][c] =
                            args.momentum * gradient_buffer.W[l][r][c]
                               + (1 - args.momentum) * StepGradient.W[l][r][c]
                     /\ weights_list'[l][r][c] =
                            weights_list[l][r][c]
                               - args.learning_rate * gradient_buffer'.W[l][r][c]
               /\ \A l \in DOMAIN bias_list : \A k \in Units :
                     /\ gradient_buffer'.b[l][k] =
                            args.momentum * gradient_buffer.b[l][k]
                               + (1 - args.momentum) * StepGradient.b[l][k]
                     /\ bias_list'[l][k] =
                            bias_list[l][k] - args.learning_rate * gradient_buffer'.b[l][k]
          ELSE gradient_buffer' = gradient_buffer]_vars

\* a second training step in a row, with a momentum that mixes the buffer of
\* the first step into the new one, has moved the parameters
C11_Witness ==
    /\ builder = "f_learn" /\ calls = 2
    /\ args.momentum = 2
    /\ gradient_buffer # [W |-> WeightsPreset(0, args.layers), b |-> BiasPreset(0, args.layers)]
    /\ weights_list # WeightsPreset(1, args.layers)
    /\ \E l \in DOMAIN bias_list : \E k \in Units :
          bias_list[l][k] # BiasPreset(1, args.layers)[l][k] - gradient_buffer.b[l][k]

\* GSN.sample has returned
Sampled == builder = "sample" /\ pc = "idle"

\* C12: for every requested sample count n_samples, the visible sequence that
\* GSN.sample returns has n_samples entries per seed row, with one hidden
\* layer and with several.
C12_SampleLength == Sampled => Len(samples) = n_samples

\* C12, as the samplers behave: the sequence starts with the seed row and gets
\* one entry per iteration of xrange(n_samples - 1), so it has n_samples
\* entries when n_samples >= 1 and one entry, the seed row, when n_samples < 1.
C12_LengthFromSeedRow ==
    /\ pc = "sample" => Len(samples) = 1 + t
    /\ Sampled => Len(samples) = (IF n_samples >= 1 THEN n_samples ELSE 1)

\* no sample was requested of a model with several hidden layers, and the seed
\* row came back
C12_Witness ==
    /\ Sampled /\ n_samples = 0 /\ Len(samples) = 1
    /\ args.layers > 1

\* a call of the sampling step has returned
SamplingStepDone == pc = "done" /\ builder \in {"update_layers_scan_step", "f_sample"}

\* C13: a call of the sampling step (the graph of f_sample, and
\* update_layers_scan_step) makes exactly one full odd-then-even sweep over the
\* state it is given and returns exactly one visible prediction together with
\* the updated state of layers + 1 entries; at no point of the call does the
\* chain hold more than one prediction.
C13_OneSweepOnePrediction ==
    /\ (builder \in {"update_layers_scan_step", "f_sample"}) => Len(p_X_chain) <= 1
    /\ SamplingStepDone =>
          /\ walkback = 1
          /\ updated = OddThenEven(args.layers)
          /\ Len(p_X_chain) = 1
          /\ x_sample = p_X_chain[1]
          /\ DOMAIN hiddens = 0..args.layers
          /\ \A l \in 0..args.layers : DOMAIN hiddens[l] = Units

\* a returned call of f_sample on a stack with two even layers, in a model
\* built for two walkbacks
C13_Witness ==
    /\ builder = "f_sample" /\ pc = "done"
    /\ args.layers = 2 /\ args.walkbacks = 2
    /\ updated = <<1, 0, 2>>
    /\ Len(p_X_chain) = 1

\* an iteration of the sampler for several hidden layers
MultiLayerIteration == pc = "sample" /\ args.layers > 1 /\ t' = t + 1

\* the call of sample that starts the sampler for several hidden layers
MultiLayerStart == pc = "idle" /\ pc' = "sample" /\ args.layers > 1

\* the stream as the visible update of a sweep over `state` finds it: after
\* the draws of the odd pass
StreamAfterOddPass(state, m) ==
    update_pass([hiddens |-> state, p_X_chain |-> <<>>, mrg |-> m],
                weights_list, bias_list, TRUE, 1).mrg

\* C14: with several hidden layers the sampler keeps a network state across
\* iterations: it starts as the noised seed with every hidden layer zero, and
\* iteration t + 1 is given, whole, the state that iteration t returned; each
\* iteration appends one clean prediction to the output sequence while the
\* visible entry of the state carried forward is that prediction corrupted.
C14_StatePersists ==
    [][/\ MultiLayerStart =>
             /\ Len(network_state') = 1
             /\ network_state'[1][0] = salt_and_pepper(samples'[1], mrg).val
             /\ \A l \in 1..args.layers : network_state'[1][l] = Zeros
       /\ MultiLayerIteration =>
             /\ Len(network_state) = t + 1
             /\ network_state' =
                   Append(network_state,
                          sampling_graph(network_state[t + 1], mrg).hiddens)
             /\ samples' =
                   Append(samples, sampling_graph(network_state[t + 1], mrg).p_X_chain[1])
             /\ network_state'[t + 2][0] =
                   Corrupt(samples'[t + 2], args.input_sampling,
                           StreamAfterOddPass(network_state[t + 1], mrg)).val]_vars

\* a third sample drawn from the state the second iteration was left in: the
\* hidden layers are no longer zero, the states of the two iterations differ,
\* and the visible entry carried forward is not the prediction collected
C14_Witness ==
    /\ pc = "sample" /\ args.layers > 1 /\ t = 2
    /\ Len(network_state) = 3 /\ Len(samples) = 3
    /\ network_state[2] # network_state[3]
    /\ \E l \in 1..args.layers : network_state[3][l] # Zeros
    /\ network_state[3][0] # samples[3]

\* the weights, the biases and the momentum buffers
Parameters == <<weights_list, bias_list, gradient_buffer>>

\* C15: only a training step changes a weight, a bias or a momentum buffer:
\* every step that changes one of them is a call of f_learn, and every step
\* of f_recon, f_cost, f_noise, f_sample and GSN.sample leaves all of them as
\* they were.
C15_OnlyLearnUpdates ==
    [][/\ Parameters' # Parameters => (pc = "idle" /\ builder' = "f_learn")
       /\ (builder' # "f_learn" \/ pc = "sample") => UNCHANGED Parameters]_vars

\* two samples drawn after a training step that moved the parameters: they
\* are still where the training step left them
C15_Witness ==
    /\ Sampled /\ calls = 2 /\ n_samples = 2 /\ Len(samples) = 2
    /\ weights_list # WeightsPreset(1, args.layers)
    /\ gradient_buffer.b # BiasPreset(0, args.layers)

\* the weights and the biases a parameter file holds for a model of this
\* number of layers: its first `layers` entries, then the layers + 1 others
SavedWeights == [l \in 0..(args.layers - 1) |-> checkpoint.params[l + 1].value]
SavedBiases == [l \in 0..args.layers |-> checkpoint.params[args.layers + 1 + l].value]

\* the parameter file was written by a model of as many layers as this one
SameConfiguration == checkpoint.exists /\ Len(checkpoint.params) = 2 * args.layers + 1

\* a call of load_params returns or raises
LoadStep == pc = "idle" /\ builder' = "load_params"

\* the reconstruction chain of input x under the parameters W, b
Prediction(W, b, x) == build_gsn(x, W, b, FALSE, mrg).p_X_chain

\* C16: save_params(n, model.params) writes the weights W_0 .. W_{layers-1} in
\* order followed by the biases b_0 .. b_layers in order; load_params of that
\* file on a model of the same configuration returns normally with every
\* weight and every bias equal to the saved one, so that the model predicts,
\* for any input and the same stream, what the saved parameters predict.
C16_RoundTrip ==
    [][/\ builder' = "save_params" =>
             /\ checkpoint'.exists
             /\ Len(checkpoint'.params) = 2 * args.layers + 1
             /\ \A l \in 0..(args.layers - 1) :
                   checkpoint'.params[l + 1] = [ndim |-> 2, value |-> weights_list[l]]
             /\ \A l \in 0..args.layers :
                   checkpoint'.params[args.layers + 1 + l] =
                       [ndim |-> 1, value |-> bias_list[l]]
       /\ (LoadStep /\ SameConfiguration) =>
             /\ pc' = "idle"
             /\ weights_list' = SavedWeights
             /\ bias_list' = SavedBiases
             /\ \A x \in SeedRows :
                   Prediction(weights_list', bias_list', x)
                       = Prediction(SavedWeights, SavedBiases, x)]_vars

\* a model of two hidden layers holds, after load_params, the non-zero weights
\* and biases of the file; its momentum buffers are not touched
C16_Witness ==
    /\ builder = "load_params" /\ pc = "idle"
    /\ args.layers = 2 /\ SameConfiguration
    /\ weights_list = SavedWeights /\ weights_list = WeightsPreset(1, 2)
    /\ bias_list = SavedBiases /\ bias_list = BiasPreset(1, 2)
    /\ gradient_buffer.W = WeightsPreset(0, 2)

\* C17: load_params of a parameter file whose list length disagrees with the
\* layer configuration of the model fails with an error and leaves every
\* weight and every bias of the model as it was.
C17_MismatchIsFatal ==
    [][(LoadStep /\ checkpoint.exists /\ ~SameConfiguration) =>
          /\ pc' # "idle"
          /\ UNCHANGED <<weights_list, bias_list>>]_vars

\* the layers both the file and the model have
SharedLayers ==
    IF Len(checkpoint.params) < 2 * args.layers + 1
    THEN (Len(checkpoint.params) - 1) \div 2
    ELSE args.layers

\* C17, as load_params behaves: there is no check of the list; zip pairs the
\* entries up to the shorter list, the weights that the file and the model
\* both have are overwritten, and the call raises TypeError only when a
\* set_value meets an array of another number of dimensions, leaving the
\* biases as they were; a missing file is logged and nothing is raised.
C17_OverwritesThenRaises ==
    [][/\ (LoadStep /\ checkpoint.exists /\ ~SameConfiguration) =>
             /\ pc' = "TypeError"
             /\ \A l \in 0..(args.layers - 1) :
                   weights_list'[l] = (IF l < SharedLayers
                                       THEN checkpoint.params[l + 1].value
                                       ELSE weights_list[l])
             /\ bias_list' = bias_list
       /\ (LoadStep /\ ~checkpoint.exists) =>
             /\ pc' = "idle"
             /\ UNCHANGED <<weights_list, bias_list>>]_vars

\* load_params has raised on a model of one hidden layer given the file of a
\* model of two: the weights are the file's, the biases are the model's own
C17_Witness ==
    /\ builder = "load_params" /\ pc = "TypeError"
    /\ args.layers = 1 /\ Len(checkpoint.params) = 5
    /\ weights_list[0] = checkpoint.params[1].value
    /\ weights_list # WeightsPreset(0, 1)
    /\ bias_list = BiasPreset(0, 1)
    /\ checkpoint.params[3].value # bias_list[0]

\* the stream as it was when the builder was called
StreamAtCall == [mrg EXCEPT !.normal = 0, !.binomial = 0, !.mask = 0]

\* C18: with walkbacks = 0 build_gsn updates no layer and returns, without
\* raising, an empty chain and the initial stack: the input, corrupted when
\* add_noise is set, at index 0 and zeros in every hidden layer.  (An
\* IndexError is the caller's, taking the last element of the returned chain.)
C18_NoWalkbacks ==
    (builder = "build_gsn" /\ args.walkbacks = 0) =>
        /\ pc \in {"return", "IndexError"}
        /\ updated = <<>> /\ walkback = 0
        /\ p_X_chain = <<>>
        /\ DOMAIN hiddens = 0..args.layers
        /\ hiddens[0] = (IF add_noise THEN salt_and_pepper(X, StreamAtCall).val ELSE X)
        /\ \A l \in 1..args.layers : hiddens[l] = Zeros
        /\ mrg.normal = 0 /\ mrg.binomial = 0 /\ mrg.mask = (IF add_noise THEN 1 ELSE 0)

\* build_gsn has returned for walkbacks = 0 with a corrupted input at index 0
C18_Witness ==
    /\ builder = "build_gsn" /\ pc = "return"
    /\ args.walkbacks = 0 /\ args.layers = 2
    /\ add_noise /\ hiddens[0] # X
    /\ p_X_chain = <<>>

\* C19: for walkbacks = 0 no caller of a chain builder takes the last element
\* of an empty chain: the construction of the model, build_gsn_given_hiddens,
\* build_gsn_scan and build_gsn_pxh all have a defined outcome.
C19_EmptyChainHandled == pc # "IndexError"

\* the callers that take the last element of the chain they have built
TakesLast == {"build_gsn", "build_gsn_scan", "build_gsn_given_hiddens", "build_gsn_pxh"}

\* C19, as the callers behave: each takes p_X_chain[-1] or costs[-1] without
\* looking at walkbacks, so with walkbacks = 0 each ends in an IndexError, and
\* with walkbacks >= 1 none does.
C19_IndexErrorIffNoWalkbacks ==
    /\ pc = "IndexError" => (builder \in TakesLast /\ args.walkbacks = 0 /\ p_X_chain = <<>>)
    /\ (builder \in TakesLast /\ args.walkbacks = 0) => pc \in {"return", "IndexError"}
    /\ pc = "done" => p_X_chain # <<>>

\* build_gsn_pxh has raised IndexError on the empty chain of walkbacks = 0
C19_Witness ==
    /\ pc = "IndexError" /\ builder = "build_gsn_pxh"
    /\ args.walkbacks = 0 /\ p_X_chain = <<>>

\* GSN(...) was called without an example dataset and without input_size
NoInputSize ==
    /\ construction.train_X = <<>>
    /\ "input_size" \notin DOMAIN construction.config

\* the constructor has gone past its input-size check, or has raised there
PastInputCheck == pc \notin {"GSN.__init__", "outdir", "config", "input"}

\* C20, as the code behaves: the check reads input_size from self.args, the
\* module's defaults dictionary with every config written into it so far. A GSN
\* constructed with no training dataset fails with the AssertionError exactly
\* when neither its config nor the config of an earlier model of the process
\* held an input_size; when it fails, no weight, bias or graph has been created.
C20_FailsUnlessInputSizeInArgs ==
    /\ (construction.train_X = <<>> /\ PastInputCheck) =>
            (pc = "AssertionError" <=> "input_size" \notin DOMAIN args)
    /\ (NoInputSize /\ construction.made = 1 /\ PastInputCheck) => pc = "AssertionError"
    /\ pc = "AssertionError" =>
            /\ NoInputSize
            /\ weights_list = <<>> /\ bias_list = <<>>
            /\ gradient_buffer = [W |-> <<>>, b |-> <<>>]
            /\ hiddens = <<>>
            /\ construction.graphs = "none"

\* C20: a GSN constructed with no training dataset and no input_size fails at
\* the input-size check with the AssertionError that asks for one of the two,
\* and no weight, no bias and no graph has been created then.
C20_FailsBeforeParameters ==
    /\ (NoInputSize /\ pc \notin {"GSN.__init__", "outdir", "config", "input"}) =>
            /\ pc = "AssertionError"
            /\ construction.N_input = <<>>
    /\ pc = "AssertionError" =>
            /\ NoInputSize
            /\ weights_list = <<>> /\ bias_list = <<>>
            /\ gradient_buffer = [W |-> <<>>, b |-> <<>>]
            /\ hiddens = <<>>
            /\ construction.graphs = "none"

\* the call without dataset and input_size, with a number of layers in its
\* config, has failed: nothing but the directory and the config file exists
C20_Witness ==
    /\ pc = "AssertionError" /\ NoInputSize
    /\ "layers" \in DOMAIN construction.config
    /\ construction.outdir /\ construction.config_file
    /\ weights_list = <<>> /\ construction.graphs = "none"

\* the stream of every seed, before its first draw
FreshStreams == {[seed |-> s, normal |-> 0, binomial |-> 0, mask |-> 0] : s \in Seeds}

\* build_gsn has returned the chain of the reconstruction graph (add_noise = False)
ReconstructionBuilt == builder = "build_gsn" /\ ~add_noise /\ pc = "done"

\* C21: the chain built with add_noise = False is free of noise: for every
\* walkbacks >= 1 every chain entry is the same whatever the random stream
\* draws, so cost and reconstruction are a function of input and parameters.
C21_NoNoiseInReconstruction ==
    ReconstructionBuilt =>
        \A m \in FreshStreams :
            build_gsn(X, weights_list, bias_list, FALSE, m).p_X_chain = p_X_chain

\* C21, as the code behaves: with add_noise = False the input is not masked
\* and no Gaussian noise is drawn, but every update of the visible layer still
\* samples (when input_sampling is set) and masks the value it stores back; the
\* first chain entry is free of noise, the later ones read the corrupted layer.
C21_VisibleStillCorrupted ==
    ReconstructionBuilt =>
        /\ mrg.normal = 0
        /\ mrg.mask = Len(p_X_chain)
        /\ mrg.binomial = (IF args.input_sampling THEN Len(p_X_chain) ELSE 0)
        /\ \A m \in FreshStreams :
              build_gsn(X, weights_list, bias_list, FALSE, m).p_X_chain[1] = p_X_chain[1]

\* a reconstruction of two walkbacks whose last entry changes with the seed
C21_Witness ==
    /\ ReconstructionBuilt
    /\ args.walkbacks = 2
    /\ \E m \in FreshStreams :
          build_gsn(X, weights_list, bias_list, FALSE, m).p_X_chain[2] # p_X_chain[2]

\* what a layer's value has been computed from: `input` when the input has
\* flowed into it, `top` when a top layer activation computed from the input has
FlowAtCall(layers) == [l \in 0..layers |-> [input |-> l = 0, top |-> FALSE]]

\* the update of layer l replaces its value by one computed from its neighbours
FlowUpdate(f, l) ==
    LET input == \E j \in Neighbours(f, l) : f[j].input
        top == (l = Top(f) /\ input) \/ \E j \in Neighbours(f, l) : f[j].top
    IN  [f EXCEPT ![l] = [input |-> input, top |-> top]]

RECURSIVE FlowAfter(_, _)
FlowAfter(f, log) ==
    IF log = <<>> THEN f ELSE FlowAfter(FlowUpdate(f, Head(log)), Tail(log))

RECURSIVE Repeated(_, _)
Repeated(sweep, n) == IF n <= 0 THEN <<>> ELSE sweep \o Repeated(sweep, n - 1)

\* every layer update build_gsn has made: the completed sweeps before the last
\* one, then the layers logged in the last one
UpdateLog == Repeated(OddThenEven(args.layers), walkback - 1) \o updated

\* what the last chain entry, the visible layer as last updated, was computed from
LastEntryFlow == FlowAfter(FlowAtCall(args.layers), UpdateLog)[0]

\* build_gsn has returned a chain of at least one entry
ChainBuilt == builder = "build_gsn" /\ pc = "done" /\ args.layers >= 1 /\ args.walkbacks >= 1

\* C22 as stated: for every layers >= 1 and walkbacks >= 1 the last chain entry
\* of build_gsn depends on a top layer activation computed from the input.
C22_FullPropagation == ChainBuilt => LastEntryFlow.top

\* C22: the input climbs one layer per pass and comes down one layer per
\* pass, so the last chain entry of build_gsn depends on a top layer activation
\* computed from the input exactly when walkbacks >= layers; it always depends
\* on the input.
C22_PropagationNeedsWalkbacks ==
    ChainBuilt =>
        /\ LastEntryFlow.input
        /\ LastEntryFlow.top <=> args.walkbacks >= args.layers

\* the biases with the one of the top layer raised in every unit
TopBiasRaised == [bias_list EXCEPT ![args.layers] = [k \in Units |-> @[k] + 1]]

\* two walkbacks over two hidden layers: the first entry has not seen the top
\* layer and keeps its value when the top bias is raised, the last one has
\* seen it and changes
C22_Witness ==
    /\ ChainBuilt
    /\ args.layers = 2 /\ args.walkbacks = 2
    /\ LastEntryFlow.top
    /\ ~FlowAfter(FlowAtCall(args.layers), OddThenEven(args.layers))[0].top
    /\ \E chain \in {build_gsn(X, weights_list, TopBiasRaised, add_noise, StreamAtCall).p_X_chain} :
          /\ chain[1] = p_X_chain[1]
          /\ chain[2] # p_X_chain[2]

\* a step that is a call of GSN.train
TrainCalled == builder' = "train" /\ builder # "train"

\* C23 as stated: a call of GSN.train is a training run, a loop over epochs
\* that makes training steps and evaluates the validation cost until the
\* improvement stalls or n_epoch is reached; such a run calls a compiled
\* function at least once.
C23_TrainRunsEpochs == [][TrainCalled => calls' > calls]_vars

\* C23, as the code behaves: a call of GSN.train returns at once; no training
\* step is made, no cost is evaluated, no parameter and no buffer changes.
C23_TrainIsEmpty ==
    [][TrainCalled =>
          /\ calls' = calls
          /\ UNCHANGED Parameters
          /\ UNCHANGED <<returned, outputs, mrg, p_X_chain, hiddens>>]_vars

\* train was called on a model that had made a training step before
C23_Witness ==
    /\ builder = "train" /\ pc = "idle"
    /\ calls = 1
    /\ weights_list # WeightsPreset(1, args.layers)

\* C29 as stated: whatever models have been constructed, the module's defaults
\* are as the module defined them, and self.args of every model is its own
\* config laid over those defaults.
C29_DefaultsIsolated ==
    /\ module_defaults = defaults
    /\ pc # "GSN.__init__" => args = construction.config @@ defaults

\* C29, as the code behaves: Model.__init__ updates the module's dictionary in
\* place and binds self.args to it. In each model the config overrides the
\* defaults for every key it holds, but every option ever given stays in the
\* defaults: keys are never removed, and a later model without the option sees
\* the value of the last model that gave it.
C29_ConfigStaysInDefaults ==
    /\ [](pc # "GSN.__init__" =>
            /\ args = module_defaults
            /\ \A k \in DOMAIN construction.config : args[k] = construction.config[k])
    /\ [][/\ DOMAIN module_defaults \subseteq DOMAIN module_defaults'
           /\ module_defaults' # module_defaults =>
                 /\ pc = "GSN.__init__"
                 /\ module_defaults' = construction.config @@ module_defaults]_vars

\* a second model, constructed without options, has the number of layers the
\* first model's config asked for
C29_Witness ==
    /\ construction.made = 2 /\ pc = "idle"
    /\ construction.config = <<>>
    /\ args.layers # defaults.layers

\* train(optimizer) has ended: it returned or let an exception through
TrainEnded == base_model.method = "train" /\ base_model.at = "idle"

\* an instance of Optimizer was at hand: the one passed, or the AdaDelta made for
\* the model's dataset
OptimizerAvailable == base_model.optimizer = "Optimizer"

\* C24 as stated: train returns True exactly when an Optimizer was available and
\* its train() returned, and returns False, letting no exception through, when
\* there is neither optimizer nor dataset, when the object passed is no
\* Optimizer, and whenever optimizer.train() raises.
C24_TrainNeverPropagates ==
    TrainEnded =>
       /\ base_model.result = "True" <=>
             (OptimizerAvailable /\ base_model.train = "returns")
       /\ (\/ base_model.optimizer = "None" /\ ~base_model.dataset
           \/ base_model.optimizer = "object"
           \/ OptimizerAvailable /\ base_model.train # "returns")
          => base_model.result = "False"

\* C24, amended: True exactly when an Optimizer was available and its train()
\* returned; False exactly when there is neither optimizer nor dataset, when the
\* object passed is no Optimizer, or when optimizer.train() raises an Exception;
\* an exception of optimizer.train() that is no Exception, and one raised by the
\* construction of the default AdaDelta, reach the caller.
C24_TrainCatchesExceptionOnly ==
    TrainEnded =>
       /\ base_model.result = "True" <=>
             (OptimizerAvailable /\ base_model.train = "returns")
       /\ base_model.result = "False" <=>
             \/ base_model.optimizer = "None" /\ ~base_model.dataset
             \/ base_model.optimizer = "object"
             \/ OptimizerAvailable /\ base_model.train = "Exception"
       /\ base_model.result = "raised" <=>
             \/ OptimizerAvailable /\ base_model.train = "KeyboardInterrupt"
             \/ /\ base_model.optimizer = "None"
                /\ base_model.dataset
                /\ base_model.AdaDelta = "raises"
       /\ base_model.params = base_model.entry

\* optimizer.train() of an available Optimizer was interrupted, and train let
\* the interrupt through
C24_Witness ==
    /\ TrainEnded
    /\ OptimizerAvailable
    /\ base_model.train = "KeyboardInterrupt"
    /\ base_model.result = "raised"

\* set_param_values(param_values) has returned False
SetReturnedFalse ==
    /\ base_model.method = "set_param_values"
    /\ base_model.at = "idle"
    /\ base_model.result = "False"

\* C28 as stated: when set_param_values returns False, every parameter has the
\* value it had at the call.
C28_AllOrNothing == SetReturnedFalse => base_model.params = base_model.entry

\* the first parameter without set_value, 0 when every parameter has it
FirstFailing(kinds) ==
    IF \A p \in DOMAIN kinds : kinds[p] = "shared" THEN 0
    ELSE CHOOSE p \in DOMAIN kinds :
            /\ kinds[p] # "shared"
            /\ \A q \in 1..(p - 1) : kinds[q] = "shared"

\* C28, what the code does: False after a length mismatch leaves every parameter
\* as it was; False after a failure at parameter k leaves parameters 1..k-1 with
\* their new values and the others with their old ones; True means every
\* parameter has its new value.
C28_SetsUpToTheFailure ==
    /\ SetReturnedFalse =>
          IF Len(base_model.param_values) # Len(base_model.params)
          THEN base_model.params = base_model.entry
          ELSE /\ FirstFailing(base_model.kinds) > 0
               /\ \A p \in DOMAIN base_model.params :
                     base_model.params[p] =
                        IF p < FirstFailing(base_model.kinds)
                        THEN base_model.param_values[p]
                        ELSE base_model.entry[p]
    /\ (/\ base_model.method = "set_param_values"
        /\ base_model.at = "idle"
        /\ base_model.result = "True")
       => /\ base_model.params = base_model.param_values
          /\ FirstFailing(base_model.kinds) = 0

\* set_param_values returned False after it had changed the first parameter
C28_Witness ==
    /\ SetReturnedFalse
    /\ Len(base_model.param_values) = Len(base_model.params)
    /\ base_model.params # base_model.entry

\* the stack with every layer of the parity of layer l set to v
SameParitySet(h, l, v) == [k \in DOMAIN h |-> IF (k + l) % 2 = 0 THEN v ELSE h[k]]

\* the values put in the place of the layers a pass updates
Fillers == {Zeros, Vec([k \in Units |-> ONE])}

\* the top layer of the parity of a pass that starts at layer `first`
TopOfPass(h, first) == IF (Top(h) + first) % 2 = 0 THEN Top(h) ELSE Top(h) - 1

\* a pass is about to update its first layer
PassStarts == pc \in {"odd", "even"} /\ i = FirstIndex(pc)

\* C25: an update of a layer in a pass gives the same layer value, chain and
\* stream whatever the layers of its own parity hold, so it reads layers of the
\* other parity only; and a pass gives the same stack and chain when its layers
\* are taken in the opposite order with the same draws.
C25_PassOrderIndependent ==
    /\ [][(pc \in {"odd", "even"} /\ hiddens' # hiddens) =>
             \A v \in Fillers :
                LET u == simple_update_layer(SameParitySet(hiddens, i, v), weights_list,
                                             bias_list, p_X_chain, i, add_noise,
                                             args.noiseless_h1, args.input_sampling, mrg)
                IN  /\ u.hiddens[i] = hiddens'[i]
                    /\ u.p_X_chain = p_X_chain'
                    /\ u.mrg = mrg'
                    /\ \A k \in DOMAIN hiddens : k # i => hiddens'[k] = hiddens[k]]_vars
    /\ [](PassStarts =>
             LET st0 == [hiddens |-> hiddens, p_X_chain |-> p_X_chain, mrg |-> mrg]
                 up == update_pass(st0, weights_list, bias_list, add_noise, i)
                 down == update_pass_descending(st0, st0, weights_list, bias_list,
                                                add_noise, i, TopOfPass(hiddens, i))
             IN  /\ up.hiddens = down.hiddens
                 /\ up.p_X_chain = down.p_X_chain)

\* a pass over two layers has updated both of them with noise, in a stack whose
\* layers differ from zero
C25_Witness ==
    /\ pc = "even"
    /\ i = 0
    /\ args.layers = MaxLayers
    /\ add_noise
    /\ updated = <<1, 3>>
    /\ hiddens[1] # Zeros
    /\ hiddens[3] # hiddens[1]

\* C26: an update of layer i changes stack entry i only, appends one entry to
\* the chain when i = 0 and leaves the chain alone otherwise, and changes neither
\* the weights nor the biases; the stack has layers + 1 entries in every state.
C26_UpdateChangesOneEntry ==
    /\ [][(pc \in {"odd", "even"}) =>
             (/\ DOMAIN hiddens' = DOMAIN hiddens
              /\ \A k \in DOMAIN hiddens : k # i => hiddens'[k] = hiddens[k]
              /\ p_X_chain' = IF i = 0
                              THEN Append(p_X_chain, p_X_chain'[Len(p_X_chain')])
                              ELSE p_X_chain
              /\ weights_list' = weights_list
              /\ bias_list' = bias_list)]_vars
    /\ [](DOMAIN hiddens = 0..args.layers)

\* a second sweep has updated the visible layer: the chain holds two entries and
\* the layers above differ from zero
C26_Witness ==
    /\ pc \in {"odd", "even", "return"}
    /\ Len(p_X_chain) = 2
    /\ updated # <<>>
    /\ updated[Len(updated)] = 0
    /\ args.layers >= 2
    /\ hiddens[1] # Zeros

\* the network state with its odd layers taken from another state
OddLayersFrom(state, other) ==
    [l \in DOMAIN state |-> IF l % 2 = 1 THEN other[l] ELSE state[l]]

\* C27: on every constructed model, one sampling step gives the same network
\* state, visible chain and stream for two input states that agree on the even
\* layers, for the same stream; so does every step the sampler makes on its
\* last network state.
C27_OddInputLayersUnused ==
    /\ [](calls = 0 =>
          \A x0 \in SeedRows, p \in Presets, q \in Presets :
             sampling_wrapper(StatePreset(p, x0, args.layers), mrg)
                = sampling_wrapper(OddLayersFrom(StatePreset(p, x0, args.layers),
                                                 StatePreset(q, x0, args.layers)), mrg))
    /\ [][(pc = "sample" /\ args.layers > 1 /\ t' = t + 1) =>
             \A q \in Presets :
                LET out == sampling_wrapper(
                              OddLayersFrom(Last(network_state),
                                            StatePreset(q, Zeros, args.layers)), mrg)
                IN  /\ Last(network_state') = out.NSO
                    /\ samples' = samples \o out.vis_pX_chain
                    /\ mrg' = out.mrg]_vars

\* the sampler has made a step on a network state whose first hidden layer
\* differs from zero and from the presets put in its place
C27_Witness ==
    /\ pc = "sample"
    /\ args.layers = MaxLayers
    /\ Len(network_state) >= 3
    /\ network_state[2][1] # Zeros
    /\ \A q \in Presets : network_state[2][1] # StatePreset(q, Zeros, args.layers)[1]

\* the pair returned for n: positive factors of n, and no factor pair of n is
\* closer together
ClosestFactors(n, pair) ==
    /\ pair[1] >= 1
    /\ pair[2] >= 1
    /\ pair[1] * pair[2] = n
    /\ \A d \in 1..n :
          n % d = 0 =>
             (IF pair[1] >= pair[2] THEN pair[1] - pair[2] ELSE pair[2] - pair[1])
                <= (IF d >= n \div d THEN d - n \div d ELSE n \div d - d)

\* C30 as stated: for every n >= 1 the pair returned is the closest pair of
\* positive factors of n.
C30_ClosestForEveryInteger ==
    factors.at = "done" => ClosestFactors(factors.n, factors.returned)

\* C30, what the code does: every call returns, with `test` at least 1
\* throughout; for every n that a float holds exactly (n up to 2^MantissaBits)
\* the pair returned is the closest pair of positive factors of n.
C30_ClosestForExactFloats ==
    /\ [](/\ factors.at = "while" => factors.test >= 1
          /\ (factors.at = "done" /\ factors.n <= 2^MantissaBits)
                => ClosestFactors(factors.n, factors.returned))
    /\ (factors.at = "sqrt" ~> factors.at = "done")

\* a call has returned after a loop of several steps on an n that is neither a
\* square nor a prime and that a float holds exactly
C30_Witness ==
    /\ factors.at = "done"
    /\ factors.n <= 2^MantissaBits
    /\ factors.returned[2] > factors.returned[1] + 2
    /\ factors.returned[1] > 1

====
